---- MODULE Spec2Model ----
(***************************************************************************)
(* Deduplication cascade, fingerprint and similarity functions, fetch      *)
(* cycle, preference learning, ranking, digest selection and daily digest  *)
(* of AttentionSync (Subscription-Assistant).                              *)
(*                                                                         *)
(* Texts are sequences of one-character strings.  The state never holds a  *)
(* text itself: it holds the NAME of a text ("TA", "CA", ...) and TextOf   *)
(* maps the name to its characters, so that lengths, canonicalisation,     *)
(* hashes and similarity ratios are computed from the characters.          *)
(***************************************************************************)
EXTENDS Integers, Sequences, FiniteSets, TLC

(***************************************************************************)
(* Generic helpers on sequences and sets.                                  *)
(***************************************************************************)
Range(s) == {s[i] : i \in 1..Len(s)}

Min(a, b) == IF a <= b THEN a ELSE b

Rep(c, n) == [i \in 1..n |-> c]

(***************************************************************************)
(* Character classes of Python's re module, on the ASCII alphabet the      *)
(* model's texts are written in.                                           *)
(***************************************************************************)
LowerLetters ==
    {"a","b","c","d","e","f","g","h","i","j","k","l","m",
     "n","o","p","q","r","s","t","u","v","w","x","y","z"}

UpperLetters ==
    {"A","B","C","D","E","F","G","H","I","J","K","L","M",
     "N","O","P","Q","R","S","T","U","V","W","X","Y","Z"}

Digits == {"0","1","2","3","4","5","6","7","8","9"}

\* \s of the regular expressions
IsSpace(c) == c \in {" ", "\t", "\n", "\r"}

\* \w of the regular expressions (the CJK range is inside \w already)
IsWord(c) == c \in LowerLetters \cup UpperLetters \cup Digits \cup {"_"}

\* str.lower() on one character
LowerChar(c) ==
    CASE c = "A" -> "a" [] c = "B" -> "b" [] c = "C" -> "c" [] c = "D" -> "d"
      [] c = "E" -> "e" [] c = "F" -> "f" [] c = "G" -> "g" [] c = "H" -> "h"
      [] c = "I" -> "i" [] c = "J" -> "j" [] c = "K" -> "k" [] c = "L" -> "l"
      [] c = "M" -> "m" [] c = "N" -> "n" [] c = "O" -> "o" [] c = "P" -> "p"
      [] c = "Q" -> "q" [] c = "R" -> "r" [] c = "S" -> "s" [] c = "T" -> "t"
      [] c = "U" -> "u" [] c = "V" -> "v" [] c = "W" -> "w" [] c = "X" -> "x"
      [] c = "Y" -> "y" [] c = "Z" -> "z" [] OTHER -> c

(***************************************************************************)
(* ContentDeduplicator._clean_content, one regular expression at a time.   *)
(* Each substitution is written position-wise (which positions of the      *)
(* input survive) instead of as a left-to-right scan, so that a text of a  *)
(* few hundred characters needs no deep recursion.                         *)
(***************************************************************************)
\* the sequence of pairs <<i, s[i]>>
Indexed(s) == [i \in 1..Len(s) |-> <<i, s[i]>>]

\* the characters of a sequence of pairs <<i, c>>
Chars(ps) == [k \in 1..Len(ps) |-> ps[k][2]]

\* index of the first ">" at or after position i, 0 when there is none
NextClose(s, i) ==
    LET cl == {k \in i..Len(s) : s[k] = ">"}
    IN  IF cl = {} THEN 0 ELSE CHOOSE k \in cl : \A m \in cl : k <= m

\* index of the last ">" before position i, 0 when there is none
PrevClose(s, i) ==
    LET cl == {k \in 1..(i - 1) : s[k] = ">"}
    IN  IF cl = {} THEN 0 ELSE CHOOSE k \in cl : \A m \in cl : k >= m

\* position p lies inside a match of r'<[^>]+>': matches are found left to
\* right and do not overlap, each runs from a "<" to the first ">" after it and
\* holds at least one character in between, so the match that ends at the ">"
\* closing p's stretch starts at the first "<" of that stretch
InTag(s, p) ==
    LET j == NextClose(s, p)
        op == {k \in (PrevClose(s, p) + 1)..j : s[k] = "<"}
        i1 == CHOOSE k \in op : \A m \in op : k <= m
    IN  j /= 0 /\ op /= {} /\ i1 <= p /\ j > i1 + 1

\* re.sub(r'<[^>]+>', '', content)
StripTags(s) == Chars(SelectSeq(Indexed(s), LAMBDA p : ~InTag(s, p[1])))

\* re.sub(r'\s+', ' ', content): the first character of a whitespace run
\* becomes one space, the rest of the run goes
CollapseSpace(s) ==
    LET kept == SelectSeq(Indexed(s),
                    LAMBDA p : ~(IsSpace(p[2]) /\ p[1] > 1 /\ IsSpace(s[p[1] - 1])))
    IN  [k \in 1..Len(kept) |-> IF IsSpace(kept[k][2]) THEN " " ELSE kept[k][2]]

\* re.sub(r'[^\w\u4e00-\u9fff\s]', '', content)
StripPunct(s) == SelectSeq(s, LAMBDA c : IsWord(c) \/ IsSpace(c))

\* str.lower()
LowerStr(s) == [i \in 1..Len(s) |-> LowerChar(s[i])]

\* str.strip()
Strip(s) ==
    LET ns == {i \in 1..Len(s) : ~IsSpace(s[i])}
    IN  IF ns = {} THEN <<>>
        ELSE SubSeq(s, CHOOSE i \in ns : \A m \in ns : i <= m,
                       CHOOSE i \in ns : \A m \in ns : i >= m)

_clean_content(content) == Strip(LowerStr(StripPunct(CollapseSpace(StripTags(content)))))

(***************************************************************************)
(* difflib.SequenceMatcher(None, a, b).ratio() as the two similarity       *)
(* functions use it: no junk predicate, autojunk on.                       *)
(***************************************************************************)
\* number of occurrences of c in b
CountIn(c, b) == Cardinality({i \in 1..Len(b) : b[i] = c})

\* __chain_b: with len(b) >= 200 an element occurring more than len(b)//100 + 1
\* times is "popular" and is left out of b2j
Popular(b) ==
    IF Len(b) >= 200
    THEN {c \in Range(b) : CountIn(c, b) > (Len(b) \div 100) + 1}
    ELSE {}

\* j2len of find_longest_match: length of the run of equal, indexed elements
\* ending at a[i], b[j] that stays inside a[alo..], b[blo..]
RECURSIVE RunLen(_, _, _, _, _, _, _)
RunLen(a, b, pop, i, j, alo, blo) ==
    IF i < alo \/ j < blo THEN 0
    ELSE IF a[i] = b[j] /\ b[j] \notin pop
         THEN 1 + RunLen(a, b, pop, i - 1, j - 1, alo, blo)
         ELSE 0

\* the extension loops of find_longest_match: equal elements before the block
RECURSIVE ExtendBack(_, _, _, _, _, _)
ExtendBack(a, b, i, j, alo, blo) ==
    IF i > alo /\ j > blo /\ a[i - 1] = b[j - 1]
    THEN 1 + ExtendBack(a, b, i - 1, j - 1, alo, blo)
    ELSE 0

\* ... and after the block
RECURSIVE ExtendFwd(_, _, _, _, _, _)
ExtendFwd(a, b, i, j, ahi, bhi) ==
    IF i <= ahi /\ j <= bhi /\ a[i] = b[j]
    THEN 1 + ExtendFwd(a, b, i + 1, j + 1, ahi, bhi)
    ELSE 0

\* find_longest_match(alo, ahi, blo, bhi) on the 1-based inclusive windows
\* a[alo..ahi], b[blo..bhi]: <<i, j, k>>, the longest block, the one that starts
\* earliest in a and then earliest in b among the longest
find_longest_match(a, b, alo, ahi, blo, bhi) ==
    LET pop == Popular(b)
        ends == (alo..ahi) \X (blo..bhi)
        len(p) == RunLen(a, b, pop, p[1], p[2], alo, blo)
        best == IF ends = {} THEN 0
                ELSE CHOOSE k \in {len(p) : p \in ends} :
                        \A p \in ends : len(p) <= k
        cands == {p \in ends : len(p) = best}
        e == CHOOSE p \in cands :
                \A q \in cands : p[1] < q[1] \/ (p[1] = q[1] /\ p[2] <= q[2])
        i0 == IF best = 0 THEN alo ELSE e[1] - best + 1
        j0 == IF best = 0 THEN blo ELSE e[2] - best + 1
        back == ExtendBack(a, b, i0, j0, alo, blo)
        fwd == ExtendFwd(a, b, i0 + best, j0 + best, ahi, bhi)
    IN  <<i0 - back, j0 - back, best + back + fwd>>

\* get_matching_blocks: total size of the blocks found in the window
RECURSIVE MatchSize(_, _, _, _, _, _)
MatchSize(a, b, alo, ahi, blo, bhi) ==
    IF alo > ahi \/ blo > bhi THEN 0
    ELSE LET m == find_longest_match(a, b, alo, ahi, blo, bhi)
         IN  IF m[3] = 0 THEN 0
             ELSE m[3]
                  + MatchSize(a, b, alo, m[1] - 1, blo, m[2] - 1)
                  + MatchSize(a, b, m[1] + m[3], ahi, m[2] + m[3], bhi)

\* ratio() as the fraction <<numerator, denominator>> = 2*matches / (la + lb);
\* _calculate_ratio returns 1.0 when both sequences are empty
SeqRatio(a, b) ==
    IF Len(a) + Len(b) = 0 THEN <<1, 1>>
    ELSE <<2 * MatchSize(a, b, 1, Len(a), 1, Len(b)), Len(a) + Len(b)>>

(***************************************************************************)
(* Thresholds and limits of ContentDeduplicator.  Similarities are kept as *)
(* fractions <<num, den>>, thresholds in percent.                          *)
(***************************************************************************)
similarity_threshold == 85

title_similarity_threshold == 90

fuzzy_threshold == 60

MIN_TITLE_LEN == 10

MIN_CONTENT_LEN == 100

TITLE_CANDIDATE_LIMIT == 100

CONTENT_CANDIDATE_LIMIT == 50

TOP_KEYWORDS == 20

\* check_days = 7, in seconds (timedelta(days=check_days))
CHECK_WINDOW == 604800

\* min(ttl, 300): the local cache keeps an entry five minutes at most
LOCAL_CACHE_TTL == 300

\* a fraction <<num, den>> is at least pct percent
AtLeastPct(r, pct) == r[1] * 100 >= pct * r[2]

(***************************************************************************)
(* The texts of the model.  Pad is an HTML tag of 100 characters: a body   *)
(* that carries it is longer than MIN_CONTENT_LEN while its canonical form *)
(* stays a few words long.  TD, TE and TF are titles of 10, 9 and 11       *)
(* characters, CH and CG bodies of 100 and 99 characters.                  *)
(***************************************************************************)
Pad == <<"<">> \o Rep("x", 98) \o <<">">>

\* an HTML tag of n characters
Tag(n) == <<"<">> \o Rep("x", n - 2) \o <<">">>

TitleNames == {"TA", "TB", "TC", "TS", "TD", "TE", "TF"}

ContentNames == {"CA", "CB", "CC", "CD", "CS", "CT", "CE", "CH", "CG", "CF", "CI"}

TextOf ==
    [n \in TitleNames \cup ContentNames |->
        CASE n = "TA" -> <<"S","t","o","r","m"," ","h","i","t","s"," ","c","i","t","y">>
          [] n = "TB" -> <<"S","t","o","r","m"," ","h","i","t","s"," ","t","o","w","n">>
          [] n = "TC" -> <<"S","T","O","R","M"," ","h","i","t","s"," ","c","i","t","y","!">>
          [] n = "TS" -> <<"S","u","n">>
          [] n = "TD" -> <<"S","t","o","r","m"," ","h","i","t","s">>
          [] n = "TE" -> <<"S","t","o","r","m"," ","h","i","t">>
          [] n = "TF" -> <<"S","t","o","r","m"," ","h","i","t","s","!">>
          [] n = "CA" -> Pad \o <<"A","l","p","h","a"," ","b","e","t","a"," ","g","a","m","m","a">>
          [] n = "CB" -> Pad \o <<"a","l","p","h","a"," "," ","b","e","t","a"," ","g","a","m","m","a","!">>
          [] n = "CC" -> Pad \o <<"a","l","p","h","a"," ","b","e","t","a"," ","g","a","m","m","a"," ","o","f">>
          [] n = "CD" -> Pad \o <<"d","e","l","t","a"," ","e","p","s","i","l","o","n"," ","z","e","t","a">>
          [] n = "CS" -> <<"s","h","o","r","t"," ","t","e","x","t">>
          [] n = "CT" -> <<"S","h","o","r","t"," "," ","T","E","X","T","!">>
          [] n = "CE" -> <<>>
          [] n = "CH" -> Tag(81) \o <<"a","l","p","h","a"," ","b","e","t","a"," ","g","a","m","m","a"," ","o","f">>
          [] n = "CG" -> Tag(83) \o <<"a","l","p","h","a"," ","b","e","t","a"," ","g","a","m","m","a">>
          [] n = "CF" -> Pad \o <<"a","l","p","h","a"," ","b","e","t","a"," ","g","a","m","m","a"," ","o","f","f">>
          [] n = "CI" -> Pad \o <<"a","l","p","h","a"," ","b","e","t","a"," ","g","a","m","m","a"," ",
                                  "i","s"," ","i","t"," ","o","n"," ","u","s"," ","a","t">>]

\* the function f with its values computed once, for the lookups below
Table(f) == f @@ <<>>

\* the texts the fingerprint and similarity functions are applied to on their
\* own: every text of at most MaxLen characters on an alphabet with letters in
\* both cases, whitespace and the two characters of an HTML tag
MaxLen == 3

Alphabet == {"a", "b", "c", "A", " ", "<", ">"}

ProbeTexts == UNION {[1..k -> Alphabet] : k \in 0..MaxLen}

\* len(text)
LenOf == Table([n \in DOMAIN TextOf |-> Len(TextOf[n])])

\* _clean_content(text), computed once per text
CleanOf == Table([n \in DOMAIN TextOf |-> _clean_content(TextOf[n])])

(***************************************************************************)
(* The fingerprinter.                                                      *)
(***************************************************************************)
\* str.split(): the words of s in order
Words(s) ==
    LET starts == {i \in 1..Len(s) : ~IsSpace(s[i]) /\ (i = 1 \/ IsSpace(s[i - 1]))}
        endOf(i) == CHOOSE j \in i..Len(s) :
                        /\ \A k \in i..j : ~IsSpace(s[k])
                        /\ (j = Len(s) \/ IsSpace(s[j + 1]))
        nth(k) == CHOOSE i \in starts : Cardinality({m \in starts : m <= i}) = k
    IN  [k \in 1..Cardinality(starts) |-> SubSeq(s, nth(k), endOf(nth(k)))]

RECURSIVE Concat(_)
Concat(ss) == IF ss = <<>> THEN <<>> ELSE Head(ss) \o Concat(Tail(ss))

\* _extract_content_features: the words longer than 2 characters of the cleaned
\* text, most frequent first (sorted() is stable, so equally frequent words stay
\* in order of first occurrence), the first TOP_KEYWORDS of them
_extract_content_features(content) ==
    LET ws == SelectSeq(Words(_clean_content(content)), LAMBDA w : Len(w) > 2)
        distinct == Range(ws)
        freq(w) == Cardinality({i \in 1..Len(ws) : ws[i] = w})
        first(w) == CHOOSE i \in 1..Len(ws) : ws[i] = w /\ \A m \in 1..(i - 1) : ws[m] /= w
        before(v, w) == freq(v) > freq(w) \/ (freq(v) = freq(w) /\ first(v) < first(w))
        rank(w) == Cardinality({v \in distinct : before(v, w)})
    IN  [k \in 1..Min(TOP_KEYWORDS, Cardinality(distinct)) |->
            CHOOSE w \in distinct : rank(w) = k - 1]

\* hashlib.md5(s).hexdigest()[:16] on the feature strings of the model's texts
\* (the digests are the real ones)
md5_hex16(s) ==
    CASE s = <<"a","l","p","h","a","b","e","t","a","g","a","m","m","a">> -> <<"1","1","d","b","5","b","1","0","e","1","c","2","1","d","2","e">>
      [] s = <<"a","l","p","h","a","b","e","t","a","g","a","m","m","a","o","f","f">> -> <<"8","6","7","b","4","0","3","9","8","8","f","d","b","5","c","1">>
      [] s = <<"d","e","l","t","a","e","p","s","i","l","o","n","z","e","t","a">> -> <<"3","4","2","4","9","d","a","b","8","d","6","1","c","3","6","5">>
      [] s = <<"s","h","o","r","t","t","e","x","t">> -> <<"3","0","3","d","1","f","b","3","3","0","7","2","2","b","5","7">>
      [] s = <<>> -> <<"d","4","1","d","8","c","d","9","8","f","0","0","b","2","0","4">>

\* generate_fuzzy_hash
generate_fuzzy_hash(content) ==
    IF content = <<>> THEN <<>>
    ELSE md5_hex16(Concat(_extract_content_features(content)))

FuzzyOf == Table([n \in ContentNames |-> generate_fuzzy_hash(TextOf[n])])

\* ContentProcessor._generate_content_hash hashes
\* re.sub(r'\s+', ' ', (title + content[:500]).lower().strip())
ProcessorHashInput(title, content) ==
    CollapseSpace(Strip(LowerStr(title \o SubSeq(content, 1, Min(500, Len(content))))))

\* hashlib.sha256(s).hexdigest(): SHA-256 is taken to be free of collisions
\* (spec 4.2), so a digest is named by its input; the one-element tuple
\* leaves <<>> for the empty string and for NULL
sha256_hexdigest(s) == <<s>>

\* generate_content_hash
generate_content_hash(content) ==
    IF content = <<>> THEN <<>> ELSE sha256_hexdigest(_clean_content(content))

HashOf == Table([n \in ContentNames |-> generate_content_hash(TextOf[n])])

\* ContentProcessor._generate_content_hash(item)
_generate_content_hash(title, content) ==
    sha256_hexdigest(ProcessorHashInput(title, content))

ProcessorHashOf ==
    Table([p \in TitleNames \X ContentNames |->
                _generate_content_hash(TextOf[p[1]], TextOf[p[2]])])

\* calculate_similarity / calculate_title_similarity: the same code twice
calculate_similarity(content1, content2) ==
    IF content1 = <<>> \/ content2 = <<>> THEN <<0, 1>>
    ELSE SeqRatio(_clean_content(content1), _clean_content(content2))

calculate_title_similarity(title1, title2) ==
    IF title1 = <<>> \/ title2 = <<>> THEN <<0, 1>>
    ELSE SeqRatio(_clean_content(title1), _clean_content(title2))

ContentSim ==
    Table([p \in ContentNames \X ContentNames |->
                calculate_similarity(TextOf[p[1]], TextOf[p[2]])])

TitleSim ==
    Table([p \in TitleNames \X TitleNames |->
                calculate_title_similarity(TextOf[p[1]], TextOf[p[2]])])

\* _fuzzy_hash_similar(hash1, hash2, threshold=0.6)
_fuzzy_hash_similar(hash1, hash2) ==
    IF hash1 = <<>> \/ hash2 = <<>> \/ Len(hash1) /= Len(hash2) THEN FALSE
    ELSE LET hamming_distance == Cardinality({i \in 1..Len(hash1) : hash1[i] /= hash2[i]})
         IN  (Len(hash1) - hamming_distance) * 100 >= fuzzy_threshold * Len(hash1)

(***************************************************************************)
(* Bounds of the model.                                                    *)
(***************************************************************************)
\* rows the item table holds at most
MaxStore == 2

\* items of one fetched batch at most
MaxBatch == 2

\* clock advances at most
MaxTicks == 1

(***************************************************************************)
(* Users, sources and the items the sources deliver.                       *)
(***************************************************************************)
Users == {"alice", "bob"}

Sources == {"s1", "s2", "s3"}

\* Source.user_id
source_user_id == [s \in Sources |-> IF s = "s3" THEN "bob" ELSE "alice"]

ItemNames == {"I1", "I2", "I3", "I4", "I5"}

\* the item_data dictionaries of ContentFetcher: url, title, content
Fetched ==
    [n \in ItemNames |->
        CASE n = "I1" -> [url |-> "u1", title |-> "TA", content |-> "CA"]
          [] n = "I2" -> [url |-> "u2", title |-> "TB", content |-> "CT"]
          [] n = "I3" -> [url |-> "u3", title |-> "TC", content |-> "CS"]
          [] n = "I4" -> [url |-> "u4", title |-> "TS", content |-> "CC"]
          [] n = "I5" -> [url |-> "", title |-> "TS", content |-> "CE"]]

\* what a source can deliver
Feed ==
    [s \in Sources |->
        CASE s = "s1" -> {"I1", "I2", "I3", "I4"}
          [] s = "s2" -> {"I1"}
          [] s = "s3" -> {"I1", "I5"}]

\* the batches a source can deliver: 1..MaxBatch items of its feed
Batches(s) == UNION {[1..n -> Feed[s]] : n \in 1..MaxBatch}

\* how far the clock moves in one step: to the end of a local cache entry's
\* lifetime, or past the recency window
TickSteps == {LOCAL_CACHE_TTL, CHECK_WINDOW + 1}

(***************************************************************************)
(* State.                                                                  *)
(*   store            the items table; a row's id is its place in the      *)
(*                    sequence; 0 stands for NULL in duplicate_of_id and   *)
(*                    <<>> for a NULL or empty hash                        *)
(*   now, ticks       the clock (seconds) and the number of its advances   *)
(*   local_cache      CacheManager._local_cache: key -> [value, expires_at];*)
(*                    a value is <<>> for "no_duplicate", else <<item id>> *)
(*   pc .. verdicts   one call of batch_deduplicate                        *)
(*   preferences      the user_preferences rows of one (user_id,           *)
(*                    preference_type, preference_key)                     *)
(*   session          per request: where its _update_preference call is,   *)
(*                    its weight, and the row its query loaded             *)
(*   calls, history   the calls begun, and the weights of the calls that   *)
(*                    committed, in commit order                           *)
(*   scored_item      an entry of score_items_for_user's result: the item   *)
(*                    and its score                                        *)
(*   profile          the preference dictionaries the item was scored with, *)
(*                    and the interests of PersonalizationProfile          *)
(*   scored_content   the same item as PersonalizationEngine scores it:    *)
(*                    the content dictionary with personalization_score    *)
(*   ranked           the candidates handed to a selector                  *)
(*   selected         what the selector returned, which selector it was,   *)
(*                    and the order in which its loop visited the list     *)
(*   digest           the last call of get_daily_digest: its user, the     *)
(*                    rows its query returned, and its response            *)
(*   probe            one application of the fingerprint or of a           *)
(*                    similarity function: the texts a, b and the values   *)
(*                    returned                                             *)
(***************************************************************************)
VARIABLES store, now, ticks, local_cache,
          pc, batch_source, item_data, idx, unique_items, seen_hashes, seen_urls,
          verdicts,
          preferences, session, calls, history,
          scored_item, profile, scored_content,
          ranked, selected,
          digest,
          probe

scoreVars == <<scored_item, profile, scored_content>>

selectVars == <<ranked, selected>>

rankVars == <<scoreVars, selectVars, digest, probe>>

\* what the deduplication and fetch actions leave alone
prefVars == <<preferences, session, calls, history, rankVars>>

clockVars == <<now, ticks>>

batchVars == <<pc, batch_source, item_data, idx, unique_items, seen_hashes, seen_urls,
               verdicts>>

\* what the preference actions leave alone
dedupVars == <<store, now, ticks, local_cache, batchVars, rankVars>>

vars == <<store, now, ticks, local_cache,
          pc, batch_source, item_data, idx, unique_items, seen_hashes, seen_urls,
          verdicts, preferences, session, calls, history,
          scored_item, profile, scored_content, ranked, selected, digest, probe>>

\* Item(**item_data) with the column defaults of models/item.py
NewItem(id, source_id, name, content_hash, fuzzy_hash, t) ==
    [id |-> id, source_id |-> source_id,
     url |-> Fetched[name].url, title |-> Fetched[name].title,
     content |-> Fetched[name].content,
     content_hash |-> content_hash, fuzzy_hash |-> fuzzy_hash,
     is_processed |-> FALSE, is_duplicate |-> FALSE, duplicate_of_id |-> 0,
     created_at |-> t]

Rows(st) == Range(st)

(***************************************************************************)
(* The four stages of the cascade.  A SELECT without ORDER BY returns its  *)
(* rows in any order, so a stage is the SET of results it can return: item *)
(* ids, or 0 for None.                                                     *)
(***************************************************************************)
\* the recency filter alone, without Item.source.has(user_id=user_id)
InWindowAnyOwner(row, t, user_id, check_days) ==
    row.created_at >= t - check_days

\* Item.source.has(user_id=user_id) and Item.created_at >= cutoff_date
InWindow(row, t, user_id, check_days) ==
    /\ source_user_id[row.source_id] = user_id
    /\ row.created_at >= t - check_days

\* .limit(1) ... scalar_one_or_none(): any one of the rows, None without rows
OneOrNone(ids) == IF ids = {} THEN {0} ELSE ids

\* a loop over the rows of a query cut by .limit(limit) that returns at the
\* first matching row: any matching row can come first; None when the rows
\* the limit lets through can all be non-matching ones
FirstMatch(cands, matches, limit) ==
    matches \cup
        (IF Cardinality(cands \ matches) >= Min(limit, Cardinality(cands))
         THEN {0} ELSE {})

_check_url_duplicate(st, t, url, user_id, check_days) ==
    IF url = "" THEN {0}
    ELSE OneOrNone({r.id : r \in {x \in Rows(st) :
                        x.url = url /\ InWindow(x, t, user_id, check_days)}})

_check_hash_duplicate(st, t, content_hash, user_id, check_days) ==
    IF content_hash = <<>> THEN {0}
    ELSE OneOrNone({r.id : r \in {x \in Rows(st) :
                        x.content_hash = content_hash
                        /\ InWindow(x, t, user_id, check_days)}})

\* the title stage with every candidate taken for a match
_check_title_similarityAnyCandidate(st, t, title, user_id, check_days) ==
    IF LenOf[title] = 0 \/ LenOf[title] < MIN_TITLE_LEN THEN {0}
    ELSE LET cands == {x \in Rows(st) :
                          InWindow(x, t, user_id, check_days)
                          /\ LenOf[x.title] > MIN_TITLE_LEN}
         IN  FirstMatch({x.id : x \in cands}, {x.id : x \in cands}, TITLE_CANDIDATE_LIMIT)

_check_title_similarity(st, t, title, user_id, check_days) ==
    IF LenOf[title] = 0 \/ LenOf[title] < MIN_TITLE_LEN THEN {0}
    ELSE LET cands == {x \in Rows(st) :
                          InWindow(x, t, user_id, check_days)
                          /\ LenOf[x.title] > MIN_TITLE_LEN}
             matches == {x \in cands :
                          AtLeastPct(TitleSim[<<title, x.title>>], title_similarity_threshold)}
         IN  FirstMatch({x.id : x \in cands}, {x.id : x \in matches}, TITLE_CANDIDATE_LIMIT)

\* the part of _check_content_similarity that runs on a cache miss: the rows
\* of the query, the fuzzy-hash filter, the similarity loop
ContentScan(st, t, content, user_id, check_days) ==
    LET fuzzy_hash == FuzzyOf[content]
        recent_items == {x \in Rows(st) :
                            InWindow(x, t, user_id, check_days)
                            /\ x.fuzzy_hash /= <<>>
                            /\ LenOf[x.content] > MIN_CONTENT_LEN}
        candidates == {x \in recent_items : _fuzzy_hash_similar(fuzzy_hash, x.fuzzy_hash)}
        matches == {x \in candidates :
                        AtLeastPct(ContentSim[<<content, x.content>>], similarity_threshold)}
    IN  FirstMatch({x.id : x \in recent_items}, {x.id : x \in matches},
                   CONTENT_CANDIDATE_LIMIT)

(***************************************************************************)
(* CacheManager with redis_client = None (init_redis of cache_manager is   *)
(* never called): get and set work on _local_cache alone.                  *)
(***************************************************************************)
\* ttl of the two cache_manager.set calls of _check_content_similarity
CACHE_TTL == 3600

\* CacheManager._local_cache_max_size
LOCAL_CACHE_MAX == 1000

Without(c, key) == [k \in DOMAIN c \ {key} |-> c[k]]

\* get finds an entry that has not expired
CacheHit(c, key, t) == key \in DOMAIN c /\ c[key].expires_at > t

\* _local_cache after get: an expired entry of the key is deleted
CacheAfterGet(c, key, t) ==
    IF key \in DOMAIN c /\ ~(c[key].expires_at > t) THEN Without(c, key) ELSE c

\* _cleanup_local_cache
_cleanup_local_cache(c, t) ==
    [k \in {x \in DOMAIN c : ~(c[x].expires_at <= t)} |-> c[k]]

\* _local_cache after set(key, value, ttl)
CacheSet(c, key, value, ttl, t) ==
    LET c1 == IF Cardinality(DOMAIN c) >= LOCAL_CACHE_MAX
              THEN _cleanup_local_cache(c, t) ELSE c
    IN  [k \in DOMAIN c1 \cup {key} |->
            IF k = key
            THEN [value |-> value, expires_at |-> t + Min(ttl, LOCAL_CACHE_TTL)]
            ELSE c1[k]]

\* cache_key: user_id and the MD5 of the content (taken to be collision-free)
CacheKey(user_id, content) == <<user_id, content>>

\* _check_content_similarity: the set of [result, cache] it can end with
_check_content_similarity(st, c, t, content, user_id, check_days) ==
    IF LenOf[content] = 0 \/ LenOf[content] < MIN_CONTENT_LEN
    THEN {[result |-> 0, cache |-> c]}
    ELSE LET key == CacheKey(user_id, content)
             c1 == CacheAfterGet(c, key, t)
         IN  IF CacheHit(c, key, t)
             THEN IF c[key].value = <<>>
                  THEN {[result |-> 0, cache |-> c1]}
                  ELSE {[result |-> IF \E x \in Rows(st) : x.id = c[key].value[1]
                                    THEN c[key].value[1] ELSE 0,
                         cache |-> c1]}
             ELSE {[result |-> r,
                    cache |-> CacheSet(c1, key, IF r = 0 THEN <<>> ELSE <<r>>, CACHE_TTL, t)] :
                        r \in ContentScan(st, t, content, user_id, check_days)}

(***************************************************************************)
(* is_duplicate_content: what follows a stage.                             *)
(***************************************************************************)
Stages == <<"url", "hash", "title", "content">>

DuplicateType ==
    [st \in Range(Stages) |->
        CASE st = "url" -> "url_exact"
          [] st = "hash" -> "content_hash"
          [] st = "title" -> "title_similar"
          [] st = "content" -> "content_similar"]

\* a stage in which later stages run although this one has found a duplicate
AfterStageNoShortCircuit(stage, hit) ==
    IF stage = "content"
    THEN [return |-> TRUE, is_duplicate |-> hit /= 0, duplicate_item |-> hit,
          duplicate_type |-> IF hit /= 0 THEN "content_similar" ELSE "unique"]
    ELSE [return |-> FALSE,
          next |-> CASE stage = "url" -> "hash"
                     [] stage = "hash" -> "title"
                     [] stage = "title" -> "content"]

\* the stage returned hit (an item id, or 0 for None): return the duplicate, go
\* on to the next stage, or return "unique" after the last one
AfterStage(stage, hit) ==
    IF hit /= 0
    THEN [return |-> TRUE, is_duplicate |-> TRUE, duplicate_item |-> hit,
          duplicate_type |-> DuplicateType[stage]]
    ELSE IF stage = "content"
         THEN [return |-> TRUE, is_duplicate |-> FALSE, duplicate_item |-> 0,
               duplicate_type |-> "unique"]
         ELSE [return |-> FALSE,
               next |-> CASE stage = "url" -> "hash"
                          [] stage = "hash" -> "title"
                          [] stage = "title" -> "content"]

(***************************************************************************)
(* is_duplicate_content: the stages in turn, on the table st, the cache c  *)
(* and the clock t.  A stage yields a hit (an item id, or 0 for None) and  *)
(* the cache it leaves; the result is the set of answers the call can give *)
(* (a LIMIT without ORDER BY leaves the row to the database), each with    *)
(* the stages it consulted.                                                *)
(***************************************************************************)
StageResult(stage, st, c, t, title, content, url, uid, check_days) ==
    CASE stage = "url" ->
            {[hit |-> h, cache |-> c] :
                h \in _check_url_duplicate(st, t, url, uid, check_days)}
      [] stage = "hash" ->
            {[hit |-> h, cache |-> c] :
                h \in _check_hash_duplicate(st, t, HashOf[content], uid, check_days)}
      [] stage = "title" ->
            {[hit |-> h, cache |-> c] :
                h \in _check_title_similarity(st, t, title, uid, check_days)}
      [] stage = "content" ->
            {[hit |-> o.result, cache |-> o.cache] :
                o \in _check_content_similarity(st, c, t, content, uid, check_days)}

RECURSIVE RunFrom(_, _, _, _, _, _, _, _, _, _)
RunFrom(stage, tr, st, c, t, title, content, url, uid, check_days) ==
    UNION {LET tr1 == Append(tr, <<stage, o.hit>>)
               r == AfterStage(stage, o.hit)
           IN  IF r.return
               THEN {[is_duplicate |-> r.is_duplicate,
                      duplicate_item |-> r.duplicate_item,
                      duplicate_type |-> r.duplicate_type,
                      stages |-> tr1, cache |-> o.cache]}
               ELSE RunFrom(r.next, tr1, st, o.cache, t, title, content, url, uid,
                            check_days) :
           o \in StageResult(stage, st, c, t, title, content, url, uid, check_days)}

is_duplicate_content(st, c, t, title, content, url, uid, check_days) ==
    RunFrom("url", <<>>, st, c, t, title, content, url, uid, check_days)

\* the stage sends a statement to the database (db.execute), which can raise
Queries(stage, st, c, t, title, content, url, uid) ==
    CASE stage = "url" -> url /= ""
      [] stage = "hash" -> HashOf[content] /= <<>>
      [] stage = "title" -> LenOf[title] >= MIN_TITLE_LEN
      [] stage = "content" ->
            /\ LenOf[content] >= MIN_CONTENT_LEN
            /\ CacheHit(c, CacheKey(uid, content), t) =>
                    c[CacheKey(uid, content)].value /= <<>>

(***************************************************************************)
(* batch_deduplicate, one item of the list at a time.                      *)
(***************************************************************************)
user_id == source_user_id[batch_source]

Current == Fetched[item_data[idx].item]

\* item_data as the fetcher hands it over: no hashes yet, and the duplicate
\* columns at their defaults
FreshItemData(name) ==
    [item |-> name, content_hash |-> <<>>, fuzzy_hash |-> <<>>,
     is_duplicate |-> FALSE, duplicate_of_id |-> 0]

\* batch_deduplicate(db, items, user_id) is called
BatchStart(s, items) ==
    /\ pc = "idle"
    /\ pc' = "item"
    /\ batch_source' = s
    /\ item_data' = [i \in 1..Len(items) |-> FreshItemData(items[i])]
    /\ idx' = 1
    /\ unique_items' = <<>>
    /\ seen_hashes' = {}
    /\ seen_urls' = {}
    /\ verdicts' = <<>>
    /\ UNCHANGED <<store, clockVars, local_cache>>
    /\ UNCHANGED prefVars

\* the loop moves on to the next item, or returns unique_items
Advance ==
    /\ idx' = idx + 1
    /\ pc' = IF idx + 1 > Len(item_data) THEN "done" ELSE "item"

\* the quick check without its second half: only a repeated URL is left out
QuickSkipUrlOnly ==
    IF Current.url /= "" /\ Current.url \in seen_urls THEN "seen_url" ELSE "none"

\* lines 324-330: an item that repeats an accepted URL or hash of the batch
QuickSkip ==
    LET url == Current.url
        content_hash == HashOf[Current.content]
    IN  IF url /= "" /\ url \in seen_urls THEN "seen_url"
        ELSE IF content_hash /= <<>> /\ content_hash \in seen_hashes THEN "seen_hash"
        ELSE "none"

\* the answer recorded without the two hashes being written into item_data
DecideNoHashes(r) ==
    LET content_hash == HashOf[Current.content]
        url == Current.url
    IN  /\ verdicts' = Append(verdicts,
                [type |-> r.duplicate_type, ref |-> r.duplicate_item,
                 stages |-> r.stages])
        /\ IF ~r.is_duplicate
           THEN /\ item_data' = item_data
                /\ unique_items' = Append(unique_items, idx)
                /\ seen_hashes' = IF content_hash /= <<>>
                                  THEN seen_hashes \cup {content_hash} ELSE seen_hashes
                /\ seen_urls' = IF url /= "" THEN seen_urls \cup {url} ELSE seen_urls
           ELSE UNCHANGED <<item_data, unique_items, seen_hashes, seen_urls>>
        /\ local_cache' = r.cache
        /\ Advance

\* lines 337-354: what the loop does with the answer r of is_duplicate_content
Decide(r) ==
    LET content_hash == HashOf[Current.content]
        url == Current.url
    IN  /\ verdicts' = Append(verdicts,
                [type |-> r.duplicate_type, ref |-> r.duplicate_item,
                 stages |-> r.stages])
        /\ IF ~r.is_duplicate
           THEN /\ item_data' = [item_data EXCEPT
                                    ![idx].content_hash = content_hash,
                                    ![idx].fuzzy_hash = FuzzyOf[Current.content]]
                /\ unique_items' = Append(unique_items, idx)
                /\ seen_hashes' = IF content_hash /= <<>>
                                  THEN seen_hashes \cup {content_hash} ELSE seen_hashes
                /\ seen_urls' = IF url /= "" THEN seen_urls \cup {url} ELSE seen_urls
           ELSE UNCHANGED <<item_data, unique_items, seen_hashes, seen_urls>>
        /\ local_cache' = r.cache
        /\ Advance

\* one turn of the loop (lines 319-354): the item is left out with "continue",
\* or is_duplicate_content decides
BatchItem ==
    /\ pc = "item"
    /\ IF QuickSkip /= "none"
       THEN /\ verdicts' = Append(verdicts,
                    [type |-> QuickSkip, ref |-> 0, stages |-> <<>>])
            /\ Advance
            /\ UNCHANGED <<item_data, unique_items, seen_hashes, seen_urls, local_cache>>
       ELSE \E r \in is_duplicate_content(store, local_cache, now, Current.title,
                                          Current.content, Current.url, user_id,
                                          CHECK_WINDOW) :
                Decide(r)
    /\ UNCHANGED <<batch_source, store, clockVars>>
    /\ UNCHANGED prefVars

\* a statement of the cascade raises in the given stage: nothing between the
\* stage and the caller of batch_deduplicate catches it, the call ends with the
\* exception and what it had collected is gone
StageRaises(stage) ==
    /\ pc = "item"
    /\ QuickSkip = "none"
    /\ \E r \in is_duplicate_content(store, local_cache, now, Current.title,
                                     Current.content, Current.url, user_id,
                                     CHECK_WINDOW) :
            \E i \in 1..Len(r.stages) : r.stages[i][1] = stage
    /\ Queries(stage, store, local_cache, now, Current.title, Current.content,
               Current.url, user_id)
    /\ pc' = "aborted"
    /\ local_cache' = IF stage = "content"
                      THEN CacheAfterGet(local_cache,
                                         CacheKey(user_id, Current.content), now)
                      ELSE local_cache
    /\ item_data' = <<>>
    /\ idx' = 0
    /\ unique_items' = <<>>
    /\ seen_hashes' = {}
    /\ seen_urls' = {}
    /\ verdicts' = <<>>
    /\ UNCHANGED <<batch_source, store, clockVars>>
    /\ UNCHANGED prefVars

\* the call is over, its result is dropped; the next call can start
BatchReset ==
    /\ pc \in {"done", "aborted"}
    /\ pc' = "idle"
    /\ batch_source' = "s1"
    /\ item_data' = <<>>
    /\ idx' = 0
    /\ unique_items' = <<>>
    /\ seen_hashes' = {}
    /\ seen_urls' = {}
    /\ verdicts' = <<>>
    /\ UNCHANGED <<store, clockVars, local_cache>>
    /\ UNCHANGED prefVars

(***************************************************************************)
(* The operations that write the items table.                              *)
(***************************************************************************)
\* the loop of process_single_source (lines 110-125): an item_data whose URL the
\* source already holds is skipped, any other becomes a new row
RECURSIVE SaveItems(_, _, _, _)
SaveItems(st, s, items, t) ==
    IF items = <<>> THEN st
    ELSE LET name == Head(items)
             existing_item == {x \in Rows(st) :
                                  x.url = Fetched[name].url /\ x.source_id = s}
             st1 == IF existing_item /= {} THEN st
                    ELSE Append(st, NewItem(Len(st) + 1, s, name, <<>>, <<>>, t))
         IN  SaveItems(st1, s, Tail(items), t)

\* what fetch_source_content can return for a source (besides nothing): the
\* RSS fetcher skips entries without a URL
FetchResults(s) ==
    {b \in Batches(s) : \A i \in 1..Len(b) : Fetched[b[i]].url /= ""}

\* process_single_source once the fetch-interval check has let the source
\* through (lines 103-129): the fetched items are saved and committed
ProcessSingleSource(s, items) ==
    /\ items /= <<>>
    /\ store' = SaveItems(store, s, items, now)
    /\ store' /= store
    /\ Len(store') <= MaxStore
    /\ UNCHANGED <<clockVars, local_cache, batchVars>>
    /\ UNCHANGED prefVars

\* ContentProcessor.process_item on a row: the row gets the processor's content
\* hash; it is marked processed unless a later step of the pipeline raised
process_item(item, ok) ==
    [item EXCEPT !.content_hash = ProcessorHashOf[<<item.title, item.content>>],
                 !.is_processed = ok]

\* process_source_items(source_id): every unprocessed row of the source goes
\* through process_item (the rows in failed with an error), then the commit
process_source_items(source_id, failed) ==
    LET unprocessed_items == {x.id : x \in {y \in Rows(store) :
                                y.source_id = source_id /\ ~y.is_processed}}
    IN  /\ unprocessed_items /= {}
        /\ failed \subseteq unprocessed_items
        /\ store' = [i \in 1..Len(store) |->
                        IF i \in unprocessed_items
                        THEN process_item(store[i], i \notin failed)
                        ELSE store[i]]
        /\ store' /= store
        /\ UNCHANGED <<clockVars, local_cache, batchVars>>
        /\ UNCHANGED prefVars

\* ContentProcessor.deduplicate_items(items) on rows of the table, given by id:
\* a row whose hash was seen earlier in the list is flagged
RECURSIVE DedupList(_, _, _)
DedupList(st, ids, seen) ==
    IF ids = <<>> THEN st
    ELSE LET item == st[Head(ids)]
         IN  IF item.content_hash /= <<>> /\ item.content_hash \in seen
             THEN DedupList([st EXCEPT ![Head(ids)].is_duplicate = TRUE], Tail(ids), seen)
             ELSE DedupList(st, Tail(ids),
                            IF item.content_hash /= <<>>
                            THEN seen \cup {item.content_hash} ELSE seen)

\* the lists of distinct rows
IdLists(n) ==
    {l \in UNION {[1..k -> 1..n] : k \in 1..n} :
        \A i, j \in 1..Len(l) : i /= j => l[i] /= l[j]}

deduplicate_items(ids) ==
    /\ store' = DedupList(store, ids, {})
    /\ store' /= store
    /\ UNCHANGED <<clockVars, local_cache, batchVars>>
    /\ UNCHANGED prefVars

\* RecentItemStore.insert of the spec, for the items batch_deduplicate returned:
\* Item(**item_data), with the hashes the batch wrote into item_data
RECURSIVE InsertAll(_, _, _, _, _)
InsertAll(st, s, data, idxs, t) ==
    IF idxs = <<>> THEN st
    ELSE LET d == data[Head(idxs)]
         IN  InsertAll(Append(st, NewItem(Len(st) + 1, s, d.item, d.content_hash,
                                          d.fuzzy_hash, t)),
                       s, data, Tail(idxs), t)

InsertAccepted ==
    /\ pc = "done"
    /\ unique_items /= <<>>
    /\ store' = InsertAll(store, batch_source, item_data, unique_items, now)
    /\ Len(store') <= MaxStore
    /\ pc' = "idle"
    /\ batch_source' = "s1"
    /\ item_data' = <<>>
    /\ idx' = 0
    /\ unique_items' = <<>>
    /\ seen_hashes' = {}
    /\ seen_urls' = {}
    /\ verdicts' = <<>>
    /\ UNCHANGED <<clockVars, local_cache>>
    /\ UNCHANGED prefVars

(***************************************************************************)
(* The environment: time passes, the process that holds the local cache    *)
(* restarts.                                                               *)
(***************************************************************************)
Tick(d) ==
    /\ pc = "idle"
    /\ ticks < MaxTicks
    /\ ticks' = ticks + 1
    /\ now' = now + d
    /\ UNCHANGED <<store, local_cache, batchVars>>
    /\ UNCHANGED prefVars

ProcessRestart ==
    /\ pc = "idle"
    /\ DOMAIN local_cache /= {}
    /\ local_cache' = <<>>
    /\ UNCHANGED <<store, clockVars, batchVars>>
    /\ UNCHANGED prefVars

(***************************************************************************)
(* Preference learning: PersonalizationService._update_preference on one   *)
(* (user_id, preference_type, preference_key), called from requests that   *)
(* each have their own database session.  Scores are exact fractions       *)
(* <<numerator, denominator>>.                                             *)
(***************************************************************************)
RECURSIVE GCD(_, _)
GCD(a, b) == IF b = 0 THEN a ELSE GCD(b, a % b)

Abs(x) == IF x < 0 THEN -x ELSE x

Norm(r) ==
    LET g == GCD(Abs(r[1]), Abs(r[2]))
        sgn == IF r[2] < 0 THEN -1 ELSE 1
    IN  IF r[1] = 0 THEN <<0, 1>> ELSE <<sgn * (r[1] \div g), sgn * (r[2] \div g)>>

RatAdd(x, y) == Norm(<<x[1] * y[2] + y[1] * x[2], x[2] * y[2]>>)

RatSub(x, y) == Norm(<<x[1] * y[2] - y[1] * x[2], x[2] * y[2]>>)

RatMul(x, y) == Norm(<<x[1] * y[1], x[2] * y[2]>>)

RatLeq(x, y) == x[1] * y[2] <= y[1] * x[2]

RatLess(x, y) == ~RatLeq(y, x)

RatMin(x, y) == IF RatLeq(x, y) THEN x ELSE y

RatMax(x, y) == IF RatLeq(x, y) THEN y ELSE x

\* requests that can be in flight together
Sessions == {"r1", "r2"}

\* _update_preference calls begun at most
MaxCalls == 3

\* update_preferences_from_feedback: weight = 1.0 if is_positive else -0.5
FeedbackWeights == {<<1, 1>>, <<-1, 2>>}

\* UserPreference._update_score(interaction_weight) on the row pref
_update_score(pref, interaction_weight) ==
    LET total_interactions == pref.positive_interactions + pref.negative_interactions
        learning_rate == RatMin(<<1, 1>>, Norm(<<10, total_interactions>>))
        raw_score == Norm(<<pref.positive_interactions - pref.negative_interactions,
                            total_interactions>>)
        score == RatAdd(RatMul(pref.score, RatSub(<<1, 1>>, learning_rate)),
                        RatMul(raw_score, learning_rate))
    IN  IF total_interactions = 0
        THEN [pref EXCEPT !.score = <<0, 1>>]
        ELSE [pref EXCEPT !.score = RatMax(<<-1, 1>>, RatMin(<<1, 1>>, score))]

add_positive_interaction(pref, weight) ==
    _update_score([pref EXCEPT !.positive_interactions = @ + 1], weight)

\* add_negative_interaction with the counter of add_positive_interaction
add_negative_interactionWrongCounter(pref, weight) ==
    _update_score([pref EXCEPT !.positive_interactions = @ + 1],
                  <<-weight[1], weight[2]>>)

add_negative_interaction(pref, weight) ==
    _update_score([pref EXCEPT !.negative_interactions = @ + 1],
                  <<-weight[1], weight[2]>>)

\* lines 194-199: the loaded row after the interaction
Updated(preference, weight) ==
    IF weight[1] > 0
    THEN add_positive_interaction(preference, <<Abs(weight[1]), weight[2]>>)
    ELSE add_negative_interaction(preference, <<Abs(weight[1]), weight[2]>>)

\* lines 201-209: the row of a new preference
Created(weight) ==
    [score |-> RatMul(weight, <<1, 10>>),
     positive_interactions |-> IF weight[1] > 0 THEN 1 ELSE 0,
     negative_interactions |-> IF weight[1] < 0 THEN 1 ELSE 0]

IdleSession == [pc |-> "idle", weight |-> <<0, 1>>, preference |-> <<>>]

\* a request calls _update_preference(user_id, type, key, weight)
UpdatePreference(r, weight) ==
    /\ session[r].pc = "idle"
    /\ calls < MaxCalls
    /\ calls' = calls + 1
    /\ session' = [session EXCEPT ![r] = [pc |-> "query", weight |-> weight,
                                          preference |-> <<>>]]
    /\ UNCHANGED <<preferences, history>>
    /\ UNCHANGED dedupVars

\* lines 182-192: the SELECT for the key and scalar_one_or_none() load the row
\* into the session, or find none
Execute(r) ==
    /\ session[r].pc = "query"
    /\ Len(preferences) <= 1
    /\ session' = [session EXCEPT ![r].pc = "loaded",
                                  ![r].preference = preferences]
    /\ UNCHANGED <<preferences, calls, history>>
    /\ UNCHANGED dedupVars

\* scalar_one_or_none() on more than one row raises MultipleResultsFound; the
\* call ends without an update
ExecuteRaises(r) ==
    /\ session[r].pc = "query"
    /\ Len(preferences) > 1
    /\ session' = [session EXCEPT ![r] = IdleSession]
    /\ UNCHANGED <<preferences, calls, history>>
    /\ UNCHANGED dedupVars

\* the UPDATE that the flush sends for the loaded row: the columns whose value
\* the session has changed, set to the session's values
Flush(row, old, new) ==
    [score |-> IF new.score /= old.score THEN new.score ELSE row.score,
     positive_interactions |->
        IF new.positive_interactions /= old.positive_interactions
        THEN new.positive_interactions ELSE row.positive_interactions,
     negative_interactions |->
        IF new.negative_interactions /= old.negative_interactions
        THEN new.negative_interactions ELSE row.negative_interactions]

\* lines 194-212: the loaded row is updated, or a new one is added; commit
Commit(r) ==
    /\ session[r].pc = "loaded"
    /\ preferences' =
            IF session[r].preference /= <<>>
            THEN [preferences EXCEPT ![1] =
                        Flush(@, session[r].preference[1],
                              Updated(session[r].preference[1], session[r].weight))]
            ELSE Append(preferences, Created(session[r].weight))
    /\ history' = Append(history, session[r].weight)
    /\ session' = [session EXCEPT ![r] = IdleSession]
    /\ UNCHANGED calls
    /\ UNCHANGED dedupVars

\* the feedback types the router accepts (routers/daily.py:151)
FeedbackTypes == {"like", "dislike", "save", "skip"}

\* feedback events of one sequence at most
MaxEvents == 12

\* lines 145-146: is_positive, and weight = 1.0 if is_positive else -0.5
FeedbackWeight(feedback_type) ==
    IF feedback_type \in {"like", "save", "click"} THEN <<1, 1>> ELSE <<-1, 2>>

\* update_preferences_from_feedback for an item with one topic, the calls of
\* a user coming one after the other: _update_preference on the topic's key
\* runs from its query to its commit before the next event arrives
update_preferences_from_feedback(feedback_type) ==
    LET weight == FeedbackWeight(feedback_type)
    IN  /\ Len(history) < MaxEvents
        /\ \A r \in Sessions : session[r].pc = "idle"
        /\ Len(preferences) <= 1
        /\ preferences' = IF preferences = <<>> THEN <<Created(weight)>>
                          ELSE <<Updated(preferences[1], weight)>>
        /\ history' = Append(history, weight)
        /\ calls' = calls + 1
        /\ UNCHANGED session
        /\ UNCHANGED dedupVars

\* the lookup with 0.5 as the score of a key without entry
PreferenceScoresDefaultHalf(prefs) ==
    IF prefs = <<>> THEN {<<1, 2>>} ELSE {prefs[i].score : i \in 1..Len(prefs)}

\* score_items_for_user, lines 32-47, and prefs.get(key, 0.0): the score the
\* ranking reads for the key; with more than one row for the key the dictionary
\* keeps the row the query returned last, which can be any of them
PreferenceScores(prefs) ==
    IF prefs = <<>> THEN {<<0, 1>>} ELSE {prefs[i].score : i \in 1..Len(prefs)}

(***************************************************************************)
(* Ranking of one item: PersonalizationService._calculate_item_score, and  *)
(* PersonalizationEngine._calculate_content_score on the item's content    *)
(* dictionary.  Scores are exact fractions; times are seconds, 0 the       *)
(* moment of the scoring.                                                  *)
(***************************************************************************)
\* everything but the variables of the ranking
coreVars == <<store, now, ticks, local_cache, batchVars,
              preferences, session, calls, history, probe>>

RatDiv(x, y) == Norm(<<x[1] * y[2], x[2] * y[1]>>)

RECURSIVE RatSum(_)
RatSum(xs) == IF xs = <<>> THEN <<0, 1>> ELSE RatAdd(Head(xs), RatSum(Tail(xs)))

\* dict.get(key, default)
Get(d, key, default) == IF key \in DOMAIN d THEN d[key] ELSE default

\* Item.engagement_score (models/item.py:80-87)
engagement_score(item) ==
    RatAdd(RatAdd(RatMul(<<item.view_count, 1>>, <<1, 10>>),
                  RatMul(<<item.click_count, 1>>, <<1, 2>>)),
           <<item.share_count, 1>>)

\* final_score of _calculate_item_score before it is clamped (lines 72-111)
WeightedScore(item, topic_prefs, source_prefs, author_prefs, utcnow) ==
    LET base_score == item.importance_score
        topic_scores == [k \in 1..Len(item.topics) |->
                            RatMul(Get(topic_prefs, item.topics[k].name, <<0, 1>>),
                                   item.topics[k].confidence)]
        topic_score == IF Len(item.topics) > 0
                       THEN RatDiv(RatSum(topic_scores), <<Len(item.topics), 1>>)
                       ELSE <<0, 1>>
        source_score == Get(source_prefs, item.source_id, <<0, 1>>)
        author_score == IF item.author /= ""
                        THEN Get(author_prefs, item.author, <<0, 1>>)
                        ELSE <<0, 1>>
        hours_old == Norm(<<utcnow - item.published_at[1], 3600>>)
        time_factor == IF item.published_at /= <<>>
                       THEN RatMax(<<1, 10>>,
                                   RatSub(<<1, 1>>, RatDiv(hours_old, <<168, 1>>)))
                       ELSE <<1, 1>>
        engagement_factor == RatMin(<<2, 1>>,
                                    RatAdd(<<1, 1>>,
                                           RatDiv(engagement_score(item), <<10, 1>>)))
        weighted == RatAdd(RatAdd(RatMul(base_score, <<3, 10>>),
                                  RatMul(topic_score, <<4, 10>>)),
                           RatAdd(RatMul(source_score, <<2, 10>>),
                                  RatMul(author_score, <<1, 10>>)))
    IN  RatMul(RatMul(weighted, time_factor), engagement_factor)

\* the score without its lower clamp: min(1.0, final_score)
_calculate_item_scoreNoFloor(item, topic_prefs, source_prefs, author_prefs, utcnow) ==
    RatMin(<<1, 1>>, WeightedScore(item, topic_prefs, source_prefs, author_prefs, utcnow))

\* the score without its upper clamp: max(0.0, final_score)
_calculate_item_scoreNoCap(item, topic_prefs, source_prefs, author_prefs, utcnow) ==
    RatMax(<<0, 1>>, WeightedScore(item, topic_prefs, source_prefs, author_prefs, utcnow))

\* _calculate_item_score: max(0.0, min(1.0, final_score))
_calculate_item_score(item, topic_prefs, source_prefs, author_prefs, utcnow) ==
    RatMax(<<0, 1>>,
           RatMin(<<1, 1>>,
                  WeightedScore(item, topic_prefs, source_prefs, author_prefs, utcnow)))

\* PersonalizationEngine._calculate_content_score(content, profile)
_calculate_content_score(content, prof, utcnow) ==
    LET content_topics == content.topics
        interest_sum == RatSum([k \in 1..Len(content_topics) |->
                                    Get(prof.interests, content_topics[k], <<0, 1>>)])
        interest_score == IF Len(content_topics) > 0
                          THEN RatDiv(interest_sum, <<Len(content_topics), 1>>)
                          ELSE interest_sum
        time_diff == utcnow - content.published_at[1]
        time_decay == RatMax(<<0, 1>>, RatSub(<<1, 1>>, Norm(<<time_diff, 24 * 3600>>)))
        types == prof.preferred_content_types
        index == CHOOSE i \in 1..Len(types) :
                    types[i] = content.type /\ \A j \in 1..(i - 1) : types[j] /= content.type
        type_preference == Norm(<<3 - (index - 1), 3>>)
        score1 == RatMul(interest_score, <<4, 10>>)
        score2 == IF content.published_at /= <<>>
                  THEN RatAdd(score1, RatMul(time_decay, <<2, 10>>)) ELSE score1
        score3 == IF content.type \in Range(types)
                  THEN RatAdd(score2, RatMul(type_preference, <<15, 100>>)) ELSE score2
        score4 == RatAdd(score3, RatMul(content.importance_score, <<15, 100>>))
        score5 == IF content.language \in Range(prof.language_preferences)
                  THEN RatAdd(score4, <<1, 10>>) ELSE score4
    IN  RatMin(<<1, 1>>, score5)

\* the content dictionary of an item
AsContent(item) ==
    [topics |-> [k \in 1..Len(item.topics) |-> item.topics[k].name],
     published_at |-> item.published_at,
     type |-> "news",
     importance_score |-> item.importance_score,
     language |-> "en",
     source |-> item.source_id]

\* the values the factors of an item take in the model
Importances == {<<0, 1>>, <<1, 2>>, <<1, 1>>}

Confidences == {<<1, 2>>, <<1, 1>>}

PrefValues == {<<-1, 1>>, <<1, 1>>}

ShareCounts == {0, 5, 10, 20}

\* hours between published_at and the scoring
AgesInHours == {0, 12, 84, 200}

\* the items before any factor has grown: no importance, no engagement, the
\* lowest confidences, the oldest date
StartItems ==
    {[importance_score |-> <<0, 1>>, topics |-> tp, source_id |-> "s1",
      author |-> au, published_at |-> pa,
      view_count |-> 0, click_count |-> 0, share_count |-> 0] :
        tp \in {<<>>,
                <<[name |-> "golang", confidence |-> <<1, 2>>]>>,
                <<[name |-> "golang", confidence |-> <<1, 2>>],
                  [name |-> "rust", confidence |-> <<1, 2>>]>>},
        au \in {"", "ann"},
        pa \in {<<>>, <<-200 * 3600>>}}

\* the preference dictionaries of score_items_for_user, some keys without entry,
\* with the interests, content types and language of PersonalizationProfile
StartProfiles ==
    {[topic_prefs |-> tp, source_prefs |-> sp, author_prefs |-> ap,
      interests |-> ins, preferred_content_types |-> <<"news">>,
      language_preferences |-> <<"en">>] :
        tp \in {<<>>} \cup [{"golang", "rust"} -> PrefValues],
        sp \in {<<>>, [k \in {"s1"} |-> <<-1, 1>>]},
        ap \in {<<>>, [k \in {"ann"} |-> <<-1, 1>>]},
        ins \in {<<>>, [k \in {"golang", "rust"} |->
                            IF k = "golang" THEN <<4, 5>> ELSE <<7, 10>>]}}

\* the item with one of its factors at another value
ItemVariants(item) ==
    {[item EXCEPT !.importance_score = v] : v \in Importances}
        \cup {[item EXCEPT !.share_count = v] : v \in ShareCounts}
        \cup (IF item.published_at = <<>> THEN {}
              ELSE {[item EXCEPT !.published_at = <<-h * 3600>>] : h \in AgesInHours})
        \cup {[item EXCEPT !.topics[k].confidence = c] :
                    k \in 1..Len(item.topics), c \in Confidences}

\* the profile with the preference score of the source or of the author at
\* another value
ProfileVariants(pr) ==
    {[pr EXCEPT !.source_prefs = [k \in DOMAIN pr.source_prefs |-> v]] : v \in PrefValues}
        \cup {[pr EXCEPT !.author_prefs = [k \in DOMAIN pr.author_prefs |-> v]] :
                    v \in PrefValues}

\* an entry of scored_items (lines 52-60)
Scored(item, pr, utcnow) ==
    [item |-> item,
     score |-> _calculate_item_score(item, pr.topic_prefs, pr.source_prefs,
                                     pr.author_prefs, utcnow)]

\* an entry of scored_content (ai_optimization.py:403-408)
ScoredContent(item, pr, utcnow) ==
    [content |-> AsContent(item),
     personalization_score |-> _calculate_content_score(AsContent(item), pr, utcnow)]

\* the item is scored, by both engines, with the profile pr
ScoreItem(item, pr) ==
    /\ scored_item' = Scored(item, pr, now)
    /\ scored_content' = ScoredContent(item, pr, now)
    /\ profile' = pr
    /\ UNCHANGED <<coreVars, selectVars, digest>>

(***************************************************************************)
(* The digest selectors: AttentionManager.select_items,                    *)
(* AttentionEconomy.portfolio_optimization (as economic_selection calls    *)
(* it) and the diversity filter of PersonalizationEngine.  A candidate     *)
(* carries what the selectors read of it: its source, its topics, the      *)
(* number of words of its content and the information value of its         *)
(* content (an integer scale; an empty content has entropy 0 and so value  *)
(* 0).  `ranked` holds the candidates as they are handed to the selector;  *)
(* for the diversity filter that is the order of their scores, and every   *)
(* order is a possible one.                                                *)
(***************************************************************************)
\* AttentionManager.attention_budget (items)
attention_budget == 7
\* AttentionManager.reading_speed (words per minute)
reading_speed == 200
\* the default time_budget of select_items (seconds)
time_budget == 180
\* AttentionEconomy.attention_budget (seconds)
economy_attention_budget == 180
\* AttentionEconomy.cognitive_budget (items)
cognitive_budget == 7
\* the limit the diversity filter is called with (items)
DigestLimit == 7

\* production_cost and demand of the assets economic_selection builds
production_cost == 1
demand == 10

\* read_time = (word_count / reading_speed) * 60, in seconds, exact
read_time(word_count) == Norm(<<word_count * 60, reading_speed>>)

\* sorted(..., key=score, reverse=True) and list.sort(key=..., reverse=True)
\* on entries [item, score]: stable, equal scores keep their order
RECURSIVE InsertByScore(_, _)
InsertByScore(sorted, x) ==
    IF sorted = <<>> THEN <<x>>
    ELSE IF RatLess(Head(sorted).score, x.score) THEN <<x>> \o sorted
    ELSE <<Head(sorted)>> \o InsertByScore(Tail(sorted), x)

RECURSIVE SortByScore(_, _)
SortByScore(scored_items, sorted) ==
    IF scored_items = <<>> THEN sorted
    ELSE SortByScore(Tail(scored_items), InsertByScore(sorted, Head(scored_items)))

\* density = value / read_time if read_time > 0 else 0
density(c) ==
    LET cost == read_time(c.word_count)
    IN  IF cost[1] > 0 THEN RatDiv(<<c.value, 1>>, cost) ELSE <<0, 1>>

\* evaluated_items after the sort by density: the order of the loop
density_order(items) ==
    LET sorted == SortByScore([i \in 1..Len(items) |->
                                [item |-> items[i], score |-> density(items[i])]], <<>>)
    IN  [i \in 1..Len(sorted) |-> sorted[i].item]

\* the loop of select_items over the evaluated items in density order
RECURSIVE SelectLoopNoCount(_, _, _)
SelectLoopNoCount(evaluated, chosen, total_time) ==
    IF evaluated = <<>> THEN chosen
    ELSE LET cost == read_time(Head(evaluated).word_count) IN
         IF RatLeq(RatAdd(total_time, cost), <<time_budget, 1>>)
         THEN SelectLoopNoCount(Tail(evaluated), Append(chosen, Head(evaluated)),
                                RatAdd(total_time, cost))
         ELSE SelectLoopNoCount(Tail(evaluated), chosen, total_time)

\* a loop that ends at the first item that does not fit
RECURSIVE SelectLoopStop(_, _, _)
SelectLoopStop(evaluated, chosen, total_time) ==
    IF evaluated = <<>> THEN chosen
    ELSE IF Len(chosen) >= attention_budget THEN chosen
    ELSE LET cost == read_time(Head(evaluated).word_count) IN
         IF RatLeq(RatAdd(total_time, cost), <<time_budget, 1>>)
         THEN SelectLoopStop(Tail(evaluated), Append(chosen, Head(evaluated)),
                             RatAdd(total_time, cost))
         ELSE chosen

RECURSIVE SelectLoop(_, _, _)
SelectLoop(evaluated, chosen, total_time) ==
    IF evaluated = <<>> THEN chosen
    ELSE IF Len(chosen) >= attention_budget THEN chosen
    ELSE LET cost == read_time(Head(evaluated).word_count) IN
         IF RatLeq(RatAdd(total_time, cost), <<time_budget, 1>>)
         THEN SelectLoop(Tail(evaluated), Append(chosen, Head(evaluated)),
                         RatAdd(total_time, cost))
         ELSE SelectLoop(Tail(evaluated), chosen, total_time)

select_itemsNoCount(items) ==
    IF items = <<>> THEN <<>>
    ELSE SelectLoopNoCount(density_order(items), <<>>, <<0, 1>>)

select_itemsStopAtMisfit(items) ==
    IF items = <<>> THEN <<>>
    ELSE SelectLoopStop(density_order(items), <<>>, <<0, 1>>)

\* AttentionManager.select_items
select_items(items) ==
    IF items = <<>> THEN <<>> ELSE SelectLoop(density_order(items), <<>>, <<0, 1>>)

\* the InformationAsset economic_selection builds for an item; supply is the
\* avg_supply of supply_demand_analysis (with no word in any content it is 0
\* and the price infinite for every asset, which orders the assets as any
\* common finite price does)
Asset(c, supply) ==
    [price |-> Norm(<<demand, supply>>), production_cost |-> production_cost,
     consumption_cost |-> read_time(c.word_count)]

\* InformationAsset.roi
roi(asset) ==
    LET total_cost == RatAdd(<<asset.production_cost, 1>>, asset.consumption_cost)
    IN  RatDiv(RatSub(asset.price, total_cost), total_cost)

\* indexed_assets after the sort by roi: the indices in the order of the loop
roi_order(assets) ==
    LET sorted == SortByScore([i \in 1..Len(assets) |->
                                [item |-> i, score |-> roi(assets[i])]], <<>>)
    IN  [i \in 1..Len(sorted) |-> sorted[i].item]

\* the loop of portfolio_optimization over the indices in ROI order
RECURSIVE PortfolioLoop(_, _, _, _)
PortfolioLoop(assets, indexed, chosen, total_time) ==
    IF indexed = <<>> THEN chosen
    ELSE LET consumption_cost == assets[Head(indexed)].consumption_cost IN
         IF /\ RatLeq(RatAdd(total_time, consumption_cost), <<economy_attention_budget, 1>>)
            /\ Len(chosen) < cognitive_budget
         THEN PortfolioLoop(assets, Tail(indexed), Append(chosen, Head(indexed)),
                            RatAdd(total_time, consumption_cost))
         ELSE PortfolioLoop(assets, Tail(indexed), chosen, total_time)

\* AttentionEconomy.portfolio_optimization: the selected indices
portfolio_optimization(assets) ==
    IF Len(assets) = 0 THEN <<>>
    ELSE PortfolioLoop(assets, roi_order(assets), <<>>, <<0, 1>>)

\* the loop of _apply_diversity_filter with the topic test `shared < bound`
RECURSIVE DiversityLoop(_, _, _, _, _, _)
DiversityLoop(scored, limit, bound, chosen, used_sources, used_topics) ==
    IF scored = <<>> THEN chosen
    ELSE IF Len(chosen) >= limit THEN chosen
    ELSE LET content == Head(scored)
             source_diversity == content.source \notin used_sources
             topic_diversity == Cardinality(content.topics \cap used_topics) < bound
         IN  IF source_diversity \/ topic_diversity \/ Len(chosen) < limit \div 2
             THEN DiversityLoop(Tail(scored), limit, bound, Append(chosen, content),
                                used_sources \cup {content.source},
                                used_topics \cup content.topics)
             ELSE DiversityLoop(Tail(scored), limit, bound, chosen,
                                used_sources, used_topics)

_apply_diversity_filterAllowTwo(scored, limit) ==
    DiversityLoop(scored, limit, 3, <<>>, {}, {})

\* PersonalizationEngine._apply_diversity_filter
_apply_diversity_filter(scored, limit) ==
    DiversityLoop(scored, limit, 2, <<>>, {}, {})

\* the word counts of the candidates: no content, a short item, and an item
\* whose reading time alone exceeds the time budget
WordCounts == {0, 100, 700}
\* the information values of a content with words
Values == {1, 8}
\* the avg_supply of supply_demand_analysis
Supplies == {1, 2}
\* the longest candidate list whose reading costs vary
MaxCostItems == 8
\* the longest candidate list whose values vary
MaxValueItems == 5
\* the longest candidate list whose sources vary
MaxRanked == 11
\* the fewest items a source contributes to a list whose sources vary
MinPerSource == 3

Candidate(source, topics, word_count, value) ==
    [source |-> source, topics |-> topics, word_count |-> word_count,
     value |-> IF word_count = 0 THEN 0 ELSE value]

\* candidate lists of one source whose lengths and reading costs vary
CostLists ==
    UNION {[1..n -> {Candidate("s1", {}, w, 1) : w \in WordCounts}] : n \in 0..MaxCostItems}

\* candidate lists of one source whose reading costs and values vary
ValueLists ==
    UNION {[1..n -> {Candidate("s1", {}, w, v) : w \in WordCounts, v \in Values}] :
                n \in 0..MaxValueItems}

\* the topics of the items of each source: the same two for every source, or
\* two of its own for every source
TopicLayouts ==
    {[s \in Sources |-> {"ai", "chips"}],
     [s \in Sources |-> {s, "about_" \o s}]}

\* candidate lists in which every source contributes at least MinPerSource
\* items, the items of a source sharing their two topics, in every order
DiversityLists ==
    {[i \in 1..Len(order) |-> Candidate(order[i], layout[order[i]], 100, 1)] :
        <<order, layout>> \in
            {f \in UNION {[1..n -> Sources] : n \in (MinPerSource * Cardinality(Sources))..MaxRanked} :
                \A s \in Sources : Cardinality({i \in DOMAIN f : f[i] = s}) >= MinPerSource}
            \X TopicLayouts}

\* no selector called
NoSelection == [by |-> "none", items |-> <<>>, visited |-> <<>>]

\* AttentionManager.select_items is called on the candidates; visited is the
\* order in which its loop takes them
SelectItems ==
    /\ selected.by = "none"
    /\ selected' = [by |-> "select_items", items |-> select_items(ranked),
                    visited |-> density_order(ranked)]
    /\ UNCHANGED <<coreVars, scoreVars, ranked, digest>>

\* economic_selection: portfolio_optimization on the assets of the candidates,
\* and the candidates at the selected indices
EconomicSelection(supply) ==
    /\ selected.by = "none"
    /\ LET assets == [i \in 1..Len(ranked) |-> Asset(ranked[i], supply)]
           selected_indices == portfolio_optimization(assets)
           indexed == roi_order(assets)
       IN  selected' = [by |-> "portfolio_optimization",
                        items |-> [i \in 1..Len(selected_indices) |->
                                        ranked[selected_indices[i]]],
                        visited |-> [i \in 1..Len(indexed) |-> ranked[indexed[i]]]]
    /\ UNCHANGED <<coreVars, scoreVars, ranked, digest>>

\* get_personalized_recommendations: the diversity filter on the scored content
ApplyDiversityFilter ==
    /\ selected.by = "none"
    /\ selected' = [by |-> "_apply_diversity_filter",
                    items |-> _apply_diversity_filter(ranked, DigestLimit),
                    visited |-> ranked]
    /\ UNCHANGED <<coreVars, scoreVars, ranked, digest>>

(***************************************************************************)
(* The daily digest: get_daily_digest of routers/daily.py.  The rows of    *)
(* the model hold no publication date, importance, topics or author: an    *)
(* entry counts as published when it is fetched, its importance is any     *)
(* value the processor can have given it, and it has no topics and no      *)
(* author.  The preference table is the one of alice's source preference   *)
(* for "s1".                                                               *)
(***************************************************************************)
\* timedelta(days=1), in seconds
SECONDS_PER_DAY == 86400
\* the days a digest is asked for, counted from time 0
Dates == {0, 7}
\* the limit of the request (ge=1, le=20, default 10)
Limits == {1, 10}

\* no digest asked for
NoDigest == [status |-> "none", user |-> "alice", all_items |-> <<>>, items |-> <<>>]

published_at(row) == row.created_at

\* the query of lines 41-49
DigestQuery(st, u, date) ==
    {x.id : x \in {y \in Rows(st) :
                    /\ source_user_id[y.source_id] = u
                    /\ ~y.is_duplicate
                    /\ y.is_processed
                    /\ published_at(y) >= date * SECONDS_PER_DAY
                    /\ published_at(y) < (date + 1) * SECONDS_PER_DAY}}

\* a SELECT without ORDER BY returns the rows in any order
QueryOrders(ids) ==
    {l \in [1..Cardinality(ids) -> ids] : \A i, j \in 1..Len(l) : i /= j => l[i] /= l[j]}

\* what _calculate_item_score reads of a row
AsItem(row, importance_score) ==
    [importance_score |-> importance_score, topics |-> <<>>,
     source_id |-> row.source_id, author |-> "",
     published_at |-> <<published_at(row)>>,
     view_count |-> 0, click_count |-> 0, share_count |-> 0]

\* the source_prefs dictionary score_items_for_user can build for the user
SourcePrefs(u) ==
    IF u = "alice" /\ preferences /= <<>>
    THEN {[k \in {"s1"} |-> sc] : sc \in PreferenceScores(preferences)}
    ELSE {<<>>}

\* PersonalizationService.score_items_for_user
score_items_for_user(st, all_items, importance, source_prefs, utcnow) ==
    [i \in 1..Len(all_items) |->
        [item |-> all_items[i],
         score |-> _calculate_item_score(AsItem(st[all_items[i]], importance[all_items[i]]),
                                         <<>>, source_prefs, <<>>, utcnow)]]

\* lines 66-87: the ids of the ItemSummary list
top_items(scored_items, limit) ==
    LET sorted == SortByScore(scored_items, <<>>)
    IN  [i \in 1..Min(limit, Len(sorted)) |-> sorted[i].item]

\* the response of get_daily_digest for the rows its query returned
DigestOf(st, u, limit, all_items, importance, source_prefs, utcnow) ==
    [status |-> "returned", user |-> u, all_items |-> all_items,
     items |-> IF all_items = <<>> THEN <<>>
               ELSE top_items(score_items_for_user(st, all_items, importance,
                                                   source_prefs, utcnow), limit)]

\* a digest that sends its candidates through deduplicate_items
get_daily_digestRededup(u, date, limit, all_items, importance, source_prefs) ==
    /\ all_items \in QueryOrders(DigestQuery(store, u, date))
    /\ digest' = DigestOf(store, u, limit, all_items, importance, source_prefs, now)
    /\ store' = DedupList(store, all_items, {})
    /\ UNCHANGED <<clockVars, local_cache, batchVars>>
    /\ UNCHANGED <<preferences, session, calls, history, scoreVars, selectVars, probe>>

\* GET /daily/digest for the user and the date
get_daily_digest(u, date, limit, all_items, importance, source_prefs) ==
    /\ all_items \in QueryOrders(DigestQuery(store, u, date))
    /\ digest' = DigestOf(store, u, limit, all_items, importance, source_prefs, now)
    /\ store' = store
    /\ UNCHANGED <<clockVars, local_cache, batchVars>>
    /\ UNCHANGED <<preferences, session, calls, history, scoreVars, selectVars, probe>>

\* GET /daily/digest when the ranking raises (the preference query of
\* score_items_for_user fails): nothing catches the exception, the request
\* ends with an error
get_daily_digestRaises(u, date, all_items) ==
    /\ all_items \in QueryOrders(DigestQuery(store, u, date))
    /\ all_items /= <<>>
    /\ digest' = [status |-> "error", user |-> u, all_items |-> all_items, items |-> <<>>]
    /\ UNCHANGED <<coreVars, scoreVars, selectVars>>

(***************************************************************************)
(* The initial states and the specifications.                              *)
(***************************************************************************)
\* the ranking before any request: the empty profile, an item without topics
(***************************************************************************)
(* The fingerprint and similarity functions applied to the texts of probe. *)
(***************************************************************************)
NoProbe == [op |-> "none", a |-> <<>>, b |-> <<>>, out |-> <<>>]

\* generate_content_hash(a), generate_content_hash(b)
GenerateContentHash ==
    /\ probe.op = "input"
    /\ probe' = [probe EXCEPT !.op = "generate_content_hash",
                              !.out = <<generate_content_hash(probe.a),
                                        generate_content_hash(probe.b)>>]
    /\ UNCHANGED <<store, clockVars, local_cache, batchVars,
                   preferences, session, calls, history,
                   scoreVars, selectVars, digest>>

\* calculate_similarity(a, b), (b, a), (a, a)
CalculateSimilarity ==
    /\ probe.op = "input"
    /\ probe' = [probe EXCEPT !.op = "calculate_similarity",
                              !.out = <<calculate_similarity(probe.a, probe.b),
                                        calculate_similarity(probe.b, probe.a),
                                        calculate_similarity(probe.a, probe.a)>>]
    /\ UNCHANGED <<store, clockVars, local_cache, batchVars,
                   preferences, session, calls, history,
                   scoreVars, selectVars, digest>>

\* calculate_title_similarity(a, b), (b, a), (a, a)
CalculateTitleSimilarity ==
    /\ probe.op = "input"
    /\ probe' = [probe EXCEPT !.op = "calculate_title_similarity",
                              !.out = <<calculate_title_similarity(probe.a, probe.b),
                                        calculate_title_similarity(probe.b, probe.a),
                                        calculate_title_similarity(probe.a, probe.a)>>]
    /\ UNCHANGED <<store, clockVars, local_cache, batchVars,
                   preferences, session, calls, history,
                   scoreVars, selectVars, digest>>

(***************************************************************************)
(* The title stage and the content stage on their own: one new item        *)
(* against one window of rows.  probe holds the title (a) and the body (b) *)
(* of the new item, and after the stage the ids of the rows its query      *)
(* handed to the comparison loop and the id it returned (0 for None).      *)
(***************************************************************************)
\* rows of a window beyond the limit of a query, at most
MaxExcess == 1

\* rows of a window of mixed rows, at most
MaxWindow == 2

StageUser == "alice"

\* the clock of the stage runs: every row of a window is recent
StageNow == 1000

\* a row as save_items leaves it: hashes of its content, created at second t
StageRow(id, source_id, title, content, t) ==
    [id |-> id, source_id |-> source_id, url |-> "", title |-> title,
     content |-> content,
     content_hash |-> HashOf[content], fuzzy_hash |-> FuzzyOf[content],
     is_processed |-> FALSE, is_duplicate |-> FALSE, duplicate_of_id |-> 0,
     created_at |-> t]

\* the rows a window is made of: <<title, content, source>>
StagePalette ==
    {<<"TB", "CD", "s1">>, <<"TC", "CB", "s1">>, <<"TF", "CC", "s1">>,
     <<"TD", "CH", "s1">>, <<"TB", "CF", "s1">>, <<"TS", "CI", "s1">>,
     <<"TC", "CA", "s3">>}

\* the rows in the order they were inserted: id and created_at grow together
WindowOf(kinds) ==
    [i \in 1..Len(kinds) |-> StageRow(i, kinds[i][3], kinds[i][1], kinds[i][2], i)]

MixedWindows ==
    {WindowOf(kinds) : kinds \in UNION {[1..n -> StagePalette] : n \in 0..MaxWindow}}

\* a window with more eligible rows than the limit of a query: rows that match
\* nothing, and one row that matches the new item "TA", "CA" as the oldest or
\* as the most recent of the window
FullWindows(filler, limit) ==
    {WindowOf([i \in 1..n |-> IF i = at THEN <<"TC", "CB", "s1">> ELSE filler]) :
        n \in (limit + 1)..(limit + MaxExcess), at \in {1, limit + 1}}

StageWindows ==
    MixedWindows
        \cup FullWindows(<<"TB", "CS", "s1">>, TITLE_CANDIDATE_LIMIT)
        \cup FullWindows(<<"TS", "CD", "s1">>, CONTENT_CANDIDATE_LIMIT)

NewTitles == {"TA", "TD", "TE"}

NewContents == {"CA", "CH", "CG"}

\* the WHERE clause of the title query (lines 212-217): ids of the rows
TitleQuery(st, t, uid, check_days) ==
    {x.id : x \in {r \in Rows(st) : /\ InWindow(r, t, uid, check_days)
                                    /\ LenOf[r.title] > MIN_TITLE_LEN}}

\* the WHERE clause of the content query (lines 260-269)
ContentQuery(st, t, uid, check_days) ==
    {x.id : x \in {r \in Rows(st) : /\ InWindow(r, t, uid, check_days)
                                    /\ r.fuzzy_hash /= <<>>
                                    /\ LenOf[r.content] > MIN_CONTENT_LEN}}

\* ids without n of them, in every way
RECURSIVE Without_n(_, _)
Without_n(ids, n) ==
    IF n = 0 THEN {ids}
    ELSE UNION {Without_n(ids \ {x}, n - 1) : x \in ids}

\* .limit(limit) on a query without ORDER BY: the database returns all the
\* rows when they are at most limit, else any limit of them
Limit(ids, limit) ==
    IF Cardinality(ids) <= limit THEN {ids}
    ELSE Without_n(ids, Cardinality(ids) - limit)

\* the table as the comparison loop sees it
Fetchall(st, ids) == SelectSeq(st, LAMBDA r : r.id \in ids)

\* _check_title_similarity(db, title, user_id) for the new item
CheckTitleSimilarity ==
    /\ probe.op = "new"
    /\ \E recent_items \in
            (IF LenOf[probe.a] < MIN_TITLE_LEN THEN {{}}
             ELSE Limit(TitleQuery(store, now, StageUser, CHECK_WINDOW),
                        TITLE_CANDIDATE_LIMIT)) :
         \E hit \in _check_title_similarity(Fetchall(store, recent_items), now,
                                            probe.a, StageUser, CHECK_WINDOW) :
            probe' = [probe EXCEPT !.op = "_check_title_similarity",
                                   !.out = [compared |-> recent_items, hit |-> hit]]
    /\ UNCHANGED <<store, clockVars, local_cache, batchVars,
                   preferences, session, calls, history,
                   scoreVars, selectVars, digest>>

\* _check_content_similarity(db, content, user_id) for the new item
CheckContentSimilarity ==
    /\ probe.op = "new"
    /\ \E recent_items \in
            (IF LenOf[probe.b] < MIN_CONTENT_LEN THEN {{}}
             ELSE Limit(ContentQuery(store, now, StageUser, CHECK_WINDOW),
                        CONTENT_CANDIDATE_LIMIT)) :
         \E o \in _check_content_similarity(Fetchall(store, recent_items), local_cache,
                                            now, probe.b, StageUser, CHECK_WINDOW) :
            /\ probe' = [probe EXCEPT !.op = "_check_content_similarity",
                                      !.out = [compared |-> recent_items,
                                               hit |-> o.result]]
            /\ local_cache' = o.cache
    /\ UNCHANGED <<store, clockVars, batchVars,
                   preferences, session, calls, history,
                   scoreVars, selectVars, digest>>

InitScoreVars ==
    /\ profile = CHOOSE pr \in StartProfiles :
                    pr.topic_prefs = <<>> /\ pr.source_prefs = <<>>
                    /\ pr.author_prefs = <<>> /\ pr.interests = <<>>
    /\ scored_item = Scored(CHOOSE it \in StartItems :
                                it.topics = <<>> /\ it.author = ""
                                /\ it.published_at = <<>>,
                            profile, 0)
    /\ scored_content = ScoredContent(scored_item.item, profile, 0)

\* nothing ranked, nothing selected, no digest asked for
InitRank ==
    /\ InitScoreVars
    /\ ranked = <<>>
    /\ selected = NoSelection
    /\ digest = NoDigest

InitDedup ==
    /\ store = <<>>
    /\ now = 0
    /\ ticks = 0
    /\ local_cache = <<>>
    /\ pc = "idle"
    /\ batch_source = "s1"
    /\ item_data = <<>>
    /\ idx = 0
    /\ unique_items = <<>>
    /\ seen_hashes = {}
    /\ seen_urls = {}
    /\ verdicts = <<>>

InitPref ==
    /\ preferences = <<>>
    /\ session = [r \in Sessions |-> IdleSession]
    /\ calls = 0
    /\ history = <<>>

InitCore ==
    /\ InitDedup
    /\ InitPref
    /\ probe = NoProbe

Init == InitCore /\ InitRank

Next ==
    \/ \E s \in Sources : \E items \in Batches(s) : BatchStart(s, items)
    \/ BatchItem
    \/ \E stage \in Range(Stages) : StageRaises(stage)
    \/ BatchReset
    \/ InsertAccepted
    \/ \E d \in TickSteps : Tick(d)
    \/ ProcessRestart

Spec == Init /\ [][Next]_vars

(***************************************************************************)
(* The fetch cycle of the worker.                                          *)
(***************************************************************************)
NextFetch ==
    \/ \E s \in Sources : \E items \in FetchResults(s) : ProcessSingleSource(s, items)
    \/ \E s \in Sources : \E failed \in SUBSET (1..Len(store)) :
            process_source_items(s, failed)
    \/ \E ids \in IdLists(Len(store)) : deduplicate_items(ids)
    \/ \E d \in TickSteps : Tick(d)

SpecFetch == Init /\ [][NextFetch]_vars

(***************************************************************************)
(* Preference learning under concurrent requests.                          *)
(***************************************************************************)
NextPref ==
    \/ \E r \in Sessions : \E w \in FeedbackWeights : UpdatePreference(r, w)
    \/ \E r \in Sessions : Execute(r)
    \/ \E r \in Sessions : ExecuteRaises(r)
    \/ \E r \in Sessions : Commit(r)

SpecPref == Init /\ [][NextPref]_vars

(***************************************************************************)
(* Preference learning from the feedback events of one user, in sequence.  *)
(***************************************************************************)
NextFeedback ==
    \E feedback_type \in FeedbackTypes : update_preferences_from_feedback(feedback_type)

SpecFeedback == Init /\ [][NextFeedback]_vars

(***************************************************************************)
(* The ranking of one item while its factors change one at a time.         *)
(***************************************************************************)
InitScore ==
    /\ InitCore
    /\ profile \in StartProfiles
    /\ \E it \in StartItems :
            /\ scored_item = Scored(it, profile, now)
            /\ scored_content = ScoredContent(it, profile, now)
    /\ ranked = <<>>
    /\ selected = NoSelection
    /\ digest = NoDigest

NextScore ==
    \/ \E it \in ItemVariants(scored_item.item) : ScoreItem(it, profile)
    \/ \E pr \in ProfileVariants(profile) : ScoreItem(scored_item.item, pr)

SpecScore == InitScore /\ [][NextScore]_vars

(***************************************************************************)
(* The fingerprint and the two similarity functions on one pair of texts.  *)
(***************************************************************************)
InitText ==
    /\ InitDedup
    /\ InitPref
    /\ InitRank
    /\ probe \in {[op |-> "input", a |-> x, b |-> y, out |-> <<>>] :
                        x \in ProbeTexts, y \in ProbeTexts}

NextText ==
    \/ GenerateContentHash
    \/ CalculateSimilarity
    \/ CalculateTitleSimilarity

SpecText == InitText /\ [][NextText]_vars

(***************************************************************************)
(* The title stage and the content stage on one new item and one window.   *)
(***************************************************************************)
InitStage ==
    /\ store \in StageWindows
    /\ now = StageNow
    /\ ticks = 0
    /\ local_cache = <<>>
    /\ pc = "idle"
    /\ batch_source = "s1"
    /\ item_data = <<>>
    /\ idx = 0
    /\ unique_items = <<>>
    /\ seen_hashes = {}
    /\ seen_urls = {}
    /\ verdicts = <<>>
    /\ InitPref
    /\ InitRank
    /\ probe \in {[op |-> "new", a |-> title, b |-> content, out |-> <<>>] :
                        title \in NewTitles, content \in NewContents}

NextStage ==
    \/ CheckTitleSimilarity
    \/ CheckContentSimilarity

SpecStage == InitStage /\ [][NextStage]_vars

(***************************************************************************)
(* The greedy selectors on one candidate list.                             *)
(***************************************************************************)
InitSelect ==
    /\ InitCore
    /\ InitScoreVars
    /\ ranked \in CostLists \cup ValueLists
    /\ selected = NoSelection
    /\ digest = NoDigest

NextSelect ==
    \/ SelectItems
    \/ \E supply \in Supplies : EconomicSelection(supply)

SpecSelect == InitSelect /\ [][NextSelect]_vars

(***************************************************************************)
(* The diversity filter on one list of scored candidates.                  *)
(***************************************************************************)
InitDiverse ==
    /\ InitCore
    /\ InitScoreVars
    /\ ranked \in DiversityLists
    /\ selected = NoSelection
    /\ digest = NoDigest

NextDiverse == ApplyDiversityFilter

SpecDiverse == InitDiverse /\ [][NextDiverse]_vars

(***************************************************************************)
(* The daily digest over the fetch cycle.  The preference table starts     *)
(* empty or with the row a first feedback created.                         *)
(***************************************************************************)
InitDigest ==
    /\ InitDedup
    /\ history \in {<<>>} \cup {<<w>> : w \in FeedbackWeights}
    /\ preferences = IF history = <<>> THEN <<>> ELSE <<Created(history[1])>>
    /\ calls = Len(history)
    /\ session = [r \in Sessions |-> IdleSession]
    /\ probe = NoProbe
    /\ InitRank

NextDigest ==
    \/ \E s \in Sources : \E items \in FetchResults(s) : ProcessSingleSource(s, items)
    \/ \E s \in Sources : \E failed \in SUBSET (1..Len(store)) :
            process_source_items(s, failed)
    \/ \E ids \in IdLists(Len(store)) : deduplicate_items(ids)
    \/ \E d \in TickSteps : Tick(d)
    \/ \E u \in Users, date \in Dates, limit \in Limits :
        \E all_items \in QueryOrders(DigestQuery(store, u, date)) :
        \E importance \in [1..Len(store) -> Importances] :
        \E source_prefs \in SourcePrefs(u) :
            get_daily_digest(u, date, limit, all_items, importance, source_prefs)
    \/ \E u \in Users, date \in Dates :
        \E all_items \in QueryOrders(DigestQuery(store, u, date)) :
            get_daily_digestRaises(u, date, all_items)

SpecDigest == InitDigest /\ [][NextDigest]_vars

(***************************************************************************)
(* Properties of the deduplication service (Spec).                         *)
(***************************************************************************)
\* the verdicts of the running call that is_duplicate_content gave
Decided == {i \in 1..Len(verdicts) : verdicts[i].type \notin {"seen_url", "seen_hash"}}

\* the item the i-th verdict is about
ItemOf(i) == Fetched[item_data[i].item]

\* C1: every answer of is_duplicate_content consulted the stages in the order
\* url, hash, title, content; every stage before the one consulted last found
\* nothing; a duplicate answer reports the stage consulted last and the item
\* that stage found; "unique" is answered only after all four found nothing.
CascadeOrder ==
    \A i \in Decided :
        LET v == verdicts[i]
            n == Len(v.stages)
        IN  /\ n \in 1..Len(Stages)
            /\ \A k \in 1..n : v.stages[k][1] = Stages[k]
            /\ \A k \in 1..(n - 1) : v.stages[k][2] = 0
            /\ IF v.type = "unique"
               THEN n = Len(Stages) /\ v.stages[n][2] = 0 /\ v.ref = 0
               ELSE /\ v.stages[n][2] /= 0
                    /\ v.ref = v.stages[n][2]
                    /\ v.type = DuplicateType[v.stages[n][1]]

\* a URL match ended the cascade although the hash stage would have matched too
CascadeOrderWitness ==
    \E i \in Decided :
        /\ verdicts[i].type = "url_exact"
        /\ 0 \notin _check_hash_duplicate(store, now, HashOf[ItemOf(i).content],
                                          user_id, CHECK_WINDOW)

\* C2: every item of the batch that was decided a duplicate, a repeat inside
\* the batch included, carries is_duplicate = TRUE and a duplicate_of_id: the
\* id of the stored item the cascade matched.
BatchDuplicatesReferenced ==
    \A i \in 1..Len(verdicts) :
        verdicts[i].type /= "unique" =>
            /\ item_data[i].is_duplicate
            /\ item_data[i].duplicate_of_id /= 0
            /\ i \in Decided => item_data[i].duplicate_of_id = verdicts[i].ref

\* C7: whatever happens while an item of the batch is checked, the step ends
\* with a verdict for that item, the batch goes on (or is done), and the items
\* accepted so far stay accepted.
FailOpen ==
    [][pc = "item" =>
            /\ pc' \in {"item", "done"}
            /\ Len(verdicts') = Len(verdicts) + 1
            /\ Len(unique_items') >= Len(unique_items)
            /\ SubSeq(unique_items', 1, Len(unique_items)) = unique_items]_vars

\* what is_duplicate_content can answer for the current item of the batch on
\* the table st with the cache c
Answers(st, c) ==
    {[is_duplicate |-> r.is_duplicate, duplicate_item |-> r.duplicate_item,
      duplicate_type |-> r.duplicate_type] :
        r \in is_duplicate_content(st, c, now, Current.title, Current.content,
                                   Current.url, user_id, CHECK_WINDOW)}

OwnRows(st, uid) == SelectSeq(st, LAMBDA x : source_user_id[x.source_id] = uid)

\* C10: a duplicate verdict refers to a row of the same owner, and the
\* cascade answers for the current item (and leaves the cache) as it does on
\* the table without the other owners' rows.
OwnerScoped ==
    /\ \A i \in Decided :
            verdicts[i].ref /= 0 =>
                \E x \in Rows(store) :
                    x.id = verdicts[i].ref /\ source_user_id[x.source_id] = user_id
    /\ (pc = "item" /\ QuickSkip = "none") =>
            is_duplicate_content(store, local_cache, now, Current.title,
                                 Current.content, Current.url, user_id, CHECK_WINDOW)
              = is_duplicate_content(OwnRows(store, user_id), local_cache, now,
                                     Current.title, Current.content, Current.url,
                                     user_id, CHECK_WINDOW)

\* an item was decided unique while a row of another owner inside the window
\* has its URL
OwnerScopedWitness ==
    \E i \in Decided :
        /\ verdicts[i].type = "unique"
        /\ \E x \in Rows(store) :
                /\ source_user_id[x.source_id] /= user_id
                /\ x.url = ItemOf(i).url
                /\ x.created_at >= now - CHECK_WINDOW

\* generate_content_hash of the i-th item of the batch
BatchHash(i) == HashOf[ItemOf(i).content]

\* the i-th item of the batch has the content hash of a row of the owner inside
\* the window, or of an earlier item of the batch
HashIdentical(i) ==
    /\ BatchHash(i) /= <<>>
    /\ \/ \E x \in Rows(store) :
            x.content_hash = BatchHash(i) /\ InWindow(x, now, user_id, CHECK_WINDOW)
       \/ \E j \in 1..(i - 1) : BatchHash(j) = BatchHash(i)

\* the i-th item of the batch matches nothing: no stage finds a row for it in
\* the table, and no earlier item of the batch has its URL
MatchesNothing(i) ==
    LET it == ItemOf(i)
    IN  /\ _check_url_duplicate(store, now, it.url, user_id, CHECK_WINDOW) = {0}
        /\ _check_hash_duplicate(store, now, BatchHash(i), user_id, CHECK_WINDOW) = {0}
        /\ _check_title_similarity(store, now, it.title, user_id, CHECK_WINDOW) = {0}
        /\ ContentScan(store, now, it.content, user_id, CHECK_WINDOW) = {0}
        /\ \A j \in 1..(i - 1) : it.url = "" \/ ItemOf(j).url /= it.url

\* the items of the batch that are hash-identical to an accepted item
HashDuplicates == {i \in 1..Len(item_data) : HashIdentical(i)}

Owner(x) == source_user_id[x.source_id]

Recent(x) == x.created_at >= now - CHECK_WINDOW

\* C3: every row flagged is_duplicate has a duplicate_of_id, and it is the id
\* of another row that is not flagged.
DuplicateHasOriginal ==
    \A x \in Rows(store) :
        x.is_duplicate =>
            /\ x.duplicate_of_id /= 0
            /\ x.duplicate_of_id /= x.id
            /\ \E y \in Rows(store) : y.id = x.duplicate_of_id /\ ~y.is_duplicate

\* C4: no two rows of one owner that are both not flagged and both inside the
\* recency window have the same non-empty content_hash.
UniqueHashInWindow ==
    \A x, y \in Rows(store) :
        (/\ x.id /= y.id
         /\ Owner(x) = Owner(y)
         /\ ~x.is_duplicate /\ ~y.is_duplicate
         /\ Recent(x) /\ Recent(y)
         /\ x.content_hash /= <<>>)
            => x.content_hash /= y.content_hash

\* C5: of two rows with one URL that the sources of one owner stored in the
\* same fetch cycle, at most one is not flagged.
OneInsertPerUrl ==
    \A x, y \in Rows(store) :
        (/\ x.id /= y.id
         /\ Owner(x) = Owner(y)
         /\ x.url = y.url
         /\ x.created_at = y.created_at)
            => (x.is_duplicate \/ y.is_duplicate)

\* C9: when the table holds a row of the owner inside the window that is not
\* flagged and has the URL of a new item, the cascade decides the new item a
\* duplicate by URL, of such a row.
UrlMatchDecides ==
    \A uid \in Users : \A n \in ItemNames :
        LET new == Fetched[n]
            originals == {x \in Rows(store) :
                            /\ x.url = new.url
                            /\ ~x.is_duplicate
                            /\ InWindow(x, now, uid, CHECK_WINDOW)}
        IN  (new.url /= "" /\ originals /= {}) =>
                \A r \in is_duplicate_content(store, local_cache, now, new.title,
                                              new.content, new.url, uid, CHECK_WINDOW) :
                    /\ r.is_duplicate
                    /\ r.duplicate_type = "url_exact"
                    /\ r.duplicate_item \in {x.id : x \in originals}

(***************************************************************************)
(* Properties of preference learning (SpecPref).                           *)
(***************************************************************************)
\* the table after the calls with the weights ws, one after the other
RECURSIVE Sequential(_, _)
Sequential(table, ws) ==
    IF ws = <<>> THEN table
    ELSE Sequential(IF table = <<>> THEN <<Created(Head(ws))>>
                    ELSE <<Updated(table[1], Head(ws))>>,
                    Tail(ws))

Orders(ws) == {[i \in 1..Len(ws) |-> ws[p[i]]] : p \in Permutations(1..Len(ws))}

\* C6: when no call is in flight, the table is what the committed calls give
\* when they run one after the other in some order: one row for the key, one
\* interaction counted per call, the score of that order.
NoLostUpdate ==
    (\A r \in Sessions : session[r].pc = "idle") =>
        preferences \in {Sequential(<<>>, ws) : ws \in Orders(history)}

\* the entry of a key before its first interaction
NoEntry == [score |-> <<0, 1>>, positive_interactions |-> 0, negative_interactions |-> 0]

\* the entry after one interaction as 4.4 of the specification computes it:
\* one counter grows by one, then
\* score = clamp(oldScore * (1 - lr) + rawScore * lr, -1, 1)
RecordInteraction(old, isPositive) ==
    LET positive == old.positive_interactions + (IF isPositive THEN 1 ELSE 0)
        negative == old.negative_interactions + (IF isPositive THEN 0 ELSE 1)
        total == positive + negative
        lr == RatMin(<<1, 1>>, Norm(<<10, total>>))
        rawScore == Norm(<<positive - negative, total>>)
        newScore == RatAdd(RatMul(old.score, RatSub(<<1, 1>>, lr)), RatMul(rawScore, lr))
    IN  [score |-> RatMax(<<-1, 1>>, RatMin(<<1, 1>>, newScore)),
         positive_interactions |-> positive,
         negative_interactions |-> negative]

\* C12: a call of _update_preference that commits on the table as it loaded it
\* (no other call committed in between) leaves the entry that RecordInteraction
\* gives, also when the call creates the entry.
InteractionFollowsEMA ==
    [][\A r \in Sessions :
            (/\ session[r].pc = "loaded"
             /\ session'[r].pc = "idle"
             /\ session[r].preference = preferences)
                => preferences' =
                        <<RecordInteraction(IF preferences = <<>> THEN NoEntry
                                            ELSE preferences[1],
                                            session[r].weight[1] > 0)>>]_vars

\* C13: the score the ranking reads for the key is within [-1, 1], and it is 0
\* while the key has no entry.
ScoreInRange ==
    /\ \A sc \in PreferenceScores(preferences) :
            RatLeq(<<-1, 1>>, sc) /\ RatLeq(sc, <<1, 1>>)
    /\ preferences = <<>> => PreferenceScores(preferences) = {<<0, 1>>}

\* feedback has driven the score of the key to the lower end of the range
ScoreInRangeWitness ==
    /\ Len(history) >= 2
    /\ <<-1, 1>> \in PreferenceScores(preferences)

(***************************************************************************)
(* Properties of preference learning from a sequence of events             *)
(* (SpecFeedback).                                                         *)
(***************************************************************************)
\* the weights of n "like" events
Likes(n) == [i \in 1..n |-> FeedbackWeight("like")]

\* C14: after n >= 2 "like" events and then one "skip" on a key without entry,
\* the score of the key is above 0 and below the score after the n "like"
\* events alone.
SkipKeepsGains ==
    \A n \in 2..(MaxEvents - 1) :
        history = Append(Likes(n), FeedbackWeight("skip")) =>
            /\ Len(preferences) = 1
            /\ RatLess(<<0, 1>>, preferences[1].score)
            /\ RatLess(preferences[1].score, Sequential(<<>>, Likes(n))[1].score)

\* eleven likes and a skip: the skip is the twelfth interaction, where the
\* learning rate is below 1
SkipKeepsGainsWitness ==
    /\ history = Append(Likes(MaxEvents - 1), FeedbackWeight("skip"))
    /\ preferences[1].positive_interactions + preferences[1].negative_interactions > 10

(***************************************************************************)
(* Properties of the ranking of one item (SpecScore).                      *)
(***************************************************************************)
\* the preference score the ranking reads for the item's source
SourcePreference == Get(profile.source_prefs, scored_item.item.source_id, <<0, 1>>)

\* the step raises exactly one positive factor of the item and leaves every
\* other input as it is
OneFactorRaised ==
    LET a == scored_item.item
        b == scored_item'.item
        p == profile
        q == profile'
    IN  \/ /\ q = p
           /\ b = [a EXCEPT !.importance_score = b.importance_score]
           /\ RatLess(a.importance_score, b.importance_score)
        \/ /\ q = p
           /\ b = [a EXCEPT !.view_count = b.view_count, !.click_count = b.click_count,
                            !.share_count = b.share_count]
           /\ a.view_count <= b.view_count
           /\ a.click_count <= b.click_count
           /\ a.share_count <= b.share_count
           /\ RatLess(engagement_score(a), engagement_score(b))
        \/ /\ q = p
           /\ a.published_at /= <<>>
           /\ b.published_at /= <<>>
           /\ b = [a EXCEPT !.published_at = b.published_at]
           /\ a.published_at[1] < b.published_at[1]
        \/ /\ q = p
           /\ Len(b.topics) = Len(a.topics)
           /\ \E k \in 1..Len(a.topics) :
                /\ b = [a EXCEPT !.topics[k].confidence = b.topics[k].confidence]
                /\ RatLess(a.topics[k].confidence, b.topics[k].confidence)
                /\ RatLess(<<0, 1>>, Get(p.topic_prefs, a.topics[k].name, <<0, 1>>))
        \/ /\ b = a
           /\ q = [p EXCEPT !.source_prefs = q.source_prefs]
           /\ RatLess(Get(p.source_prefs, a.source_id, <<0, 1>>),
                      Get(q.source_prefs, a.source_id, <<0, 1>>))
           /\ \A k \in (DOMAIN p.source_prefs \cup DOMAIN q.source_prefs) \ {a.source_id} :
                    Get(p.source_prefs, k, <<0, 1>>) = Get(q.source_prefs, k, <<0, 1>>)
        \/ /\ b = a
           /\ a.author /= ""
           /\ q = [p EXCEPT !.author_prefs = q.author_prefs]
           /\ RatLess(Get(p.author_prefs, a.author, <<0, 1>>),
                      Get(q.author_prefs, a.author, <<0, 1>>))
           /\ \A k \in (DOMAIN p.author_prefs \cup DOMAIN q.author_prefs) \ {a.author} :
                    Get(p.author_prefs, k, <<0, 1>>) = Get(q.author_prefs, k, <<0, 1>>)

\* C15: a step that raises one positive factor of the item (importance, the
\* preference score of its source or author, engagement, recency, or the
\* confidence of a topic with a positive preference score) and leaves every
\* other input as it is does not lower the item's score.
MonotoneScore ==
    [][OneFactorRaised => RatLeq(scored_item.score, scored_item'.score)]_vars

\* factors have been raised to their top, the source is disliked, and the
\* score lies inside the range
MonotoneScoreWitness ==
    /\ scored_item.item.importance_score = <<1, 1>>
    /\ scored_item.item.share_count = 20
    /\ SourcePreference = <<-1, 1>>
    /\ \E k \in 1..Len(scored_item.item.topics) :
            /\ scored_item.item.topics[k].confidence = <<1, 1>>
            /\ RatLess(<<0, 1>>, Get(profile.topic_prefs,
                                     scored_item.item.topics[k].name, <<0, 1>>))
    /\ RatLess(<<0, 1>>, scored_item.score)
    /\ RatLess(scored_item.score, <<1, 1>>)

\* C16: the score of the item is within [0, 1], from either engine.
FinalScoreInRange ==
    /\ RatLeq(<<0, 1>>, scored_item.score)
    /\ RatLeq(scored_item.score, <<1, 1>>)
    /\ RatLeq(<<0, 1>>, scored_content.personalization_score)
    /\ RatLeq(scored_content.personalization_score, <<1, 1>>)

\* the engagement factor is at its cap of 2, a preference score is negative,
\* and the product is above 1 before it is clamped
FinalScoreInRangeWitness ==
    /\ scored_item.item.share_count >= 10
    /\ SourcePreference = <<-1, 1>>
    /\ RatLess(<<1, 1>>,
               WeightedScore(scored_item.item, profile.topic_prefs, profile.source_prefs,
                             profile.author_prefs, now))
    /\ scored_item.score = <<1, 1>>

(***************************************************************************)
(* Properties of the digest selectors (SpecSelect, SpecDiverse).           *)
(***************************************************************************)
\* the sum of the reading costs of the items, in seconds
TotalCost(items) == RatSum([i \in 1..Len(items) |-> read_time(items[i].word_count)])

\* sub is full with some of its elements left out
RECURSIVE IsSubList(_, _)
IsSubList(sub, full) ==
    IF sub = <<>> THEN TRUE
    ELSE IF full = <<>> THEN FALSE
    ELSE IF Head(sub) = Head(full) THEN IsSubList(Tail(sub), Tail(full))
    ELSE IsSubList(sub, Tail(full))

\* C18: for every candidate list, what select_items and portfolio_optimization
\* return is a list of candidates (some left out, never an error) of at most 7
\* items whose reading costs sum to at most 180 seconds.
WithinBudgets ==
    selected.by \in {"select_items", "portfolio_optimization"} =>
        /\ Len(selected.items) <= cognitive_budget
        /\ RatLeq(TotalCost(selected.items), <<time_budget, 1>>)
        /\ IsSubList(selected.items, selected.visited)
        /\ Range(selected.items) \subseteq Range(ranked)

\* more candidates than the item budget, and the time budget leaves room for
\* fewer items than the item budget
WithinBudgetsWitness ==
    /\ selected.by = "select_items"
    /\ Len(ranked) > attention_budget
    /\ Len(selected.items) > 0
    /\ Len(selected.items) < attention_budget

\* the number of items of the source in the list
SourceCount(items, s) == Cardinality({i \in DOMAIN items : items[i].source = s})

\* at least 3 sources, each with at least 3 candidates, and the candidates of
\* a source share at least 2 topics with one another
ThreeSourcesOfThree ==
    /\ Cardinality({ranked[i].source : i \in DOMAIN ranked}) >= 3
    /\ \A i \in DOMAIN ranked : SourceCount(ranked, ranked[i].source) >= 3
    /\ \A i, j \in DOMAIN ranked :
            ranked[i].source = ranked[j].source =>
                Cardinality(ranked[i].topics \cap ranked[j].topics) >= 2

RankingChangesNothing ==
    [][digest' /= digest => store' = store /\ preferences' = preferences]_vars

\* a digest with an item was returned to a user who has a row flagged as a
\* duplicate, while a preference row exists
RankingChangesNothingWitness ==
    /\ digest.status = "returned"
    /\ digest.items /= <<>>
    /\ preferences /= <<>>
    /\ \E x \in Rows(store) :
            x.is_duplicate /\ source_user_id[x.source_id] = digest.user

\* C20: a request for the digest whose query returned at least one row ends
\* with a response, and the response holds at least one item, also when the
\* ranking raised.
DigestAlwaysReturned ==
    digest.all_items /= <<>> =>
        /\ digest.status = "returned"
        /\ digest.items /= <<>>

(***************************************************************************)
(* The time decay of the ranking (SpecScore).                              *)
(***************************************************************************)
\* one week, the span of the time decay, in hours
WEEK_HOURS == 168

\* C28: an item published one week ago or earlier has time factor
\* max(0, 1 - hoursOld/168) = 0, so its final score is 0 whatever its
\* importance, preferences and engagement are.
WeekOldScoresZero ==
    (/\ scored_item.item.published_at /= <<>>
     /\ now - scored_item.item.published_at[1] >= WEEK_HOURS * 3600)
        => scored_item.score = <<0, 1>>

(***************************************************************************)
(* The skip rule of the diversity filter (SpecDiverse).                    *)
(***************************************************************************)
\* what the filter has selected once the first k candidates are behind it
SelectedAfter(k) == _apply_diversity_filter(SubSeq(ranked, 1, k), DigestLimit)

\* C24: while the selection is not full, the filter skips candidate k exactly
\* when its source is used by a selected item, it shares at least 2 topics with
\* the topics of the selected items, and at least half of the budget (7/2, not
\* rounded down) is filled.
SkipRuleAsStated ==
    selected.by = "_apply_diversity_filter" =>
        \A k \in 1..Len(ranked) :
            LET before == SelectedAfter(k - 1)
                used_sources == {before[i].source : i \in 1..Len(before)}
                used_topics == UNION {before[i].topics : i \in 1..Len(before)}
                skipped == Len(SelectedAfter(k)) = Len(before)
            IN  Len(before) < DigestLimit =>
                    (skipped <=>
                        /\ ranked[k].source \in used_sources
                        /\ Cardinality(ranked[k].topics \cap used_topics) >= 2
                        /\ 2 * Len(before) >= DigestLimit)

(***************************************************************************)
(* The greedy selection (SpecSelect).                                      *)
(***************************************************************************)
\* the two lists hold the same items, each as often as the other
SameItems(xs, ys) ==
    /\ Len(xs) = Len(ys)
    /\ \A x \in Range(xs) :
            Cardinality({i \in 1..Len(xs) : xs[i] = x})
                = Cardinality({i \in 1..Len(ys) : ys[i] = x})

\* a has at least the score/readingCost density of b: for select_items the
\* score is the information value (density 0 without reading cost); the assets
\* of economic_selection have one price, so the cheaper asset is the denser
AtLeastAsDense(a, b) ==
    IF selected.by = "select_items"
    THEN RatLeq(density(b), density(a))
    ELSE RatLeq(read_time(a.word_count), read_time(b.word_count))

\* the selection as stated: a candidate is taken when it fits in the time
\* that is left and the item budget is not full, else it is passed over
RECURSIVE TakenAsStated(_, _)
TakenAsStated(visited, chosen) ==
    IF visited = <<>> THEN chosen
    ELSE IF /\ RatLeq(RatAdd(TotalCost(chosen), read_time(Head(visited).word_count)),
                      <<time_budget, 1>>)
            /\ Len(chosen) < cognitive_budget
         THEN TakenAsStated(Tail(visited), Append(chosen, Head(visited)))
         ELSE TakenAsStated(Tail(visited), chosen)

\* C30: select_items and portfolio_optimization take the candidates in
\* non-increasing order of density, and they leave a candidate out exactly when
\* it does not fit in the time left at its turn or the item budget is full at
\* its turn; candidates after one that did not fit are still taken.
GreedyByDensity ==
    selected.by \in {"select_items", "portfolio_optimization"} =>
        /\ SameItems(selected.visited, ranked)
        /\ \A i, j \in 1..Len(selected.visited) :
                i < j => AtLeastAsDense(selected.visited[i], selected.visited[j])
        /\ selected.items = TakenAsStated(selected.visited, <<>>)

\* the sort has moved a candidate forward, the densest candidate did not fit
\* and a later, cheaper one was taken
GreedyByDensityWitness ==
    /\ selected.by = "select_items"
    /\ selected.visited /= ranked
    /\ Len(selected.visited) >= 2
    /\ selected.visited[1] \notin Range(selected.items)
    /\ ~AtLeastAsDense(selected.visited[2], selected.visited[1])
    /\ selected.visited[2] \in Range(selected.items)

(***************************************************************************)
(* The result of batch_deduplicate (Spec).                                 *)
(***************************************************************************)
\* an accepted item before the i-th of the batch has its URL or its hash
AcceptedBefore(i) ==
    \E j \in Range(unique_items) :
        /\ j < i
        /\ \/ ItemOf(i).url /= "" /\ ItemOf(j).url = ItemOf(i).url
           \/ BatchHash(i) /= <<>> /\ BatchHash(j) = BatchHash(i)

\* C29: unique_items is a subsequence of the batch in its order; every item in
\* it carries its content_hash and fuzzy_hash; no two items in it have the same
\* non-empty URL or the same non-empty content hash; and an item that repeats
\* the URL or hash of an item accepted before it in the batch is left out
\* without a stage of the cascade being run for it.
BatchResult ==
    pc \in {"item", "done"} =>
        /\ \A k \in 1..Len(unique_items) : unique_items[k] \in 1..Len(verdicts)
        /\ \A k, l \in 1..Len(unique_items) :
                k < l =>
                    /\ unique_items[k] < unique_items[l]
                    /\ ItemOf(unique_items[k]).url = ""
                            \/ ItemOf(unique_items[k]).url /= ItemOf(unique_items[l]).url
                    /\ BatchHash(unique_items[k]) = <<>>
                            \/ BatchHash(unique_items[k]) /= BatchHash(unique_items[l])
        /\ \A i \in Range(unique_items) :
                /\ item_data[i].content_hash = BatchHash(i)
                /\ item_data[i].fuzzy_hash = FuzzyOf[ItemOf(i).content]
        /\ \A i \in 1..Len(verdicts) :
                AcceptedBefore(i) =>
                    /\ i \notin Range(unique_items)
                    /\ verdicts[i].stages = <<>>

\* a batch of two is done: the first item was accepted with its hashes, the
\* second has another URL and the same content hash and was left out unchecked
BatchResultWitness ==
    /\ pc = "done"
    /\ Len(item_data) = 2
    /\ unique_items = <<1>>
    /\ item_data[1].content_hash /= <<>>
    /\ item_data[1].fuzzy_hash /= <<>>
    /\ ItemOf(1).url /= ItemOf(2).url
    /\ AcceptedBefore(2)
    /\ verdicts[2].type = "seen_hash"

(***************************************************************************)
(* Properties of the fingerprint and of the similarity functions           *)
(* (SpecText).                                                             *)
(***************************************************************************)
\* what is left of a text when its HTML tags, the case of its letters and the
\* amount of its whitespace are taken away: its lower-case words in order
WordsOf(x) == Words(LowerStr(StripTags(x)))

\* C21: two texts that differ only in whitespace, in HTML tags or in the case
\* of letters (the empty text included) get the same content hash.
SameHashUpToMarkup ==
    (probe.op = "generate_content_hash" /\ WordsOf(probe.a) = WordsOf(probe.b))
        => probe.out[1] = probe.out[2]

\* the fraction r is 1
IsOne(r) == r[2] /= 0 /\ r[1] = r[2]

\* C22: the similarity of a text with itself is 1.0, for the body similarity
\* and for the title similarity, the empty text included.
SelfSimilarityOne ==
    probe.op \in {"calculate_similarity", "calculate_title_similarity"}
        => IsOne(probe.out[3])

\* C23: the similarity of a with b is the similarity of b with a.
SimilaritySymmetric ==
    probe.op \in {"calculate_similarity", "calculate_title_similarity"}
        => probe.out[1][1] * probe.out[2][2] = probe.out[2][1] * probe.out[1][2]

(***************************************************************************)
(* Properties of the title stage and of the content stage (SpecStage).     *)
(***************************************************************************)
\* the rows of the owner's window
OwnerWindow == {x \in Rows(store) : InWindow(x, now, StageUser, CHECK_WINDOW)}

\* the compared rows whose title is similar enough to the new title
SimilarTitles ==
    {x \in OwnerWindow :
        /\ x.id \in probe.out.compared
        /\ AtLeastPct(TitleSim[<<probe.a, x.title>>], title_similarity_threshold)}

\* C25: the title stage looks at candidates only for a new title of at least
\* 10 characters; it then reports a duplicate exactly when a compared title of
\* the owner's window has similarity >= 0.9, and the row it reports is such a
\* row; a shorter new title never gives a duplicate.
TitleStageDecides ==
    probe.op = "_check_title_similarity" =>
        /\ LenOf[probe.a] < 10 =>
                probe.out.compared = {} /\ probe.out.hit = 0
        /\ LenOf[probe.a] >= 10 =>
                /\ probe.out.hit /= 0 <=> SimilarTitles /= {}
                /\ probe.out.hit /= 0 => probe.out.hit \in {x.id : x \in SimilarTitles}

\* a new title of exactly 10 characters was compared with a similar title and
\* with one that is not, and the similar one was reported
TitleStageDecidesWitness ==
    /\ probe.op = "_check_title_similarity"
    /\ LenOf[probe.a] = 10
    /\ Cardinality(probe.out.compared) = 2
    /\ Cardinality(SimilarTitles) = 1
    /\ probe.out.hit /= 0

\* the rows of the owner's window that are candidates as stated: a body of at
\* least 100 characters, close fuzzy hash, similarity >= 0.85
SimilarBodies ==
    {x \in OwnerWindow :
        /\ LenOf[x.content] >= 100
        /\ _fuzzy_hash_similar(FuzzyOf[probe.b], x.fuzzy_hash)
        /\ AtLeastPct(ContentSim[<<probe.b, x.content>>], similarity_threshold)}

\* C26: the content stage looks at candidates only for a new body of at least
\* 100 characters; then, in a window whose candidates all fit under the limit,
\* it reports a duplicate exactly when a row with a body of at least 100
\* characters passes the fuzzy filter and has similarity >= 0.85, and the row
\* it reports is such a row.
ContentStageAsStated ==
    probe.op = "_check_content_similarity" =>
        /\ LenOf[probe.b] < 100 =>
                probe.out.compared = {} /\ probe.out.hit = 0
        /\ (/\ LenOf[probe.b] >= 100
            /\ Cardinality({x \in OwnerWindow : LenOf[x.content] >= 100})
                    <= CONTENT_CANDIDATE_LIMIT) =>
                /\ probe.out.hit /= 0 <=> SimilarBodies /= {}
                /\ probe.out.hit /= 0 => probe.out.hit \in {x.id : x \in SimilarBodies}

\* the rows the query of the stage selects, and its limit
Eligible ==
    IF probe.op = "_check_title_similarity"
    THEN {x \in OwnerWindow : LenOf[x.title] > MIN_TITLE_LEN}
    ELSE {x \in OwnerWindow : x.fuzzy_hash /= <<>> /\ LenOf[x.content] > MIN_CONTENT_LEN}

\* C27: a stage compares at most 100 (titles) or 50 (bodies) rows, and the
\* rows it compares are the most recent ones: no row is compared while a more
\* recent row that the query selects is left out.
MostRecentCompared ==
    probe.op \in {"_check_title_similarity", "_check_content_similarity"} =>
        /\ Cardinality(probe.out.compared)
                <= (IF probe.op = "_check_title_similarity" THEN 100 ELSE 50)
        /\ \A x \in Eligible : \A y \in Eligible :
                (x.id \in probe.out.compared /\ y.id \notin probe.out.compared)
                    => y.created_at <= x.created_at

====
